---- MODULE Spec2Model ----
(***************************************************************************)
(* Drawing engine of the LineAccurate editor: the document reducer         *)
(* (DrawingContext), the layer panel, the line / select / eraser tools of  *)
(* the canvas and the file import, as a state machine over UI events.      *)
(*                                                                         *)
(* Numbers are integers.  Distances are compared squared, so the          *)
(* point-to-segment tests are exact on the integer points used here.      *)
(* Layer names and colours, element styles and the other presentation     *)
(* fields of DrawingState are carried by no transition modelled here and  *)
(* are left out of the records.                                           *)
(***************************************************************************)
EXTENDS Integers, Sequences, FiniteSets, TLC

VARIABLES
  state,           \* DrawingState held by useReducer
  isDrawing,       \* DrawingCanvas useState(false)
  currentElement,  \* DrawingCanvas useState(null): <<>> or <<draft>>
  isDragging,      \* SelectTool useState(false)
  dragStart,       \* SelectTool useState(null): <<>> or <<point>>
  clickCount,      \* AngleTool useState(0)
  textInput,       \* TextTool useState('')
  inputPosition,   \* TextTool useState(null): <<>> or <<point>>
  showInput,       \* TextTool useState(false)
  inputFocused,    \* the text input has the keyboard focus
  blurTimers,      \* pending setTimeout callbacks of handleBlur, with what they captured
  viewport,        \* container.getBoundingClientRect(): width and height
  isPanning,       \* DrawingCanvas useState(false)
  lastPanPoint,    \* DrawingCanvas useState(null): <<>> or <<client point>>
  pendingImport,   \* file imports suspended at `await file.text()`
  now,             \* the value Date.now() returns next
  obs              \* history variable: the shape of the dispatch sequence so far

vars == <<state, isDrawing, currentElement, isDragging, dragStart, clickCount, textInput,
          inputPosition, showInput, inputFocused, blurTimers, viewport, isPanning, lastPanPoint, pendingImport, now, obs>>

(* The container's rectangle and the pan gesture of the DrawingCanvas *)
canvasLocal == <<viewport, isPanning, lastPanPoint>>

(* The useState values owned by the AngleTool and the TextTool *)
toolLocal == <<clickCount, textInput, inputPosition, showInput, inputFocused, blurTimers>>

----------------------------------------------------------------------------
(* Bounds of the model *)

MaxHistory == 4     \* longest history sequence explored
MaxNow == 1         \* number of Date.now() based ids handed out
MaxCoord == 140     \* largest coordinate a select drag may produce
MaxLayers == 3      \* most layers the layer panel is driven to
MaxPendingImports == 1  \* file reads in flight at once
MaxPoints == 3      \* most points a freehand stroke is driven to
MaxPages == 4       \* most pages the pages panel is driven to
MaxPasses == 4      \* effect passes followed after one event
MaxViewPages == 2   \* most pages while zooming and panning
MaxTimers == 1      \* most pending focus-loss timers

----------------------------------------------------------------------------
(* Program constants *)

CANVAS_PADDING == 50
PAGE_MARGIN == 20
PageWidth == 794
PageHeight == 1123
SnapThreshold == 7
EraserStrokeWidth == 10
TextFontSize == 14
LineStrokeWidth == 2
(* stands for the non-finite numbers among coordinates *)
Infinity == 1000000
(* zoom and minZoom are held in hundredths, the unit of the zoom slider: *)
(* ZoomUnit is zoom 1.0                                                  *)
ZoomUnit == 100
MaxZoom == 300
MinZoomFloor == 10
InitialMinZoom == 50
comfortableMin == 60

Pt(x, y) == [x |-> x, y |-> y]

(* Document points the pointer is driven to (outputs of getCanvasPoint):  *)
(* two points on page 1 and one point on no page.                         *)
PA == Pt(60, 60)
PB == Pt(60, 100)
POut == Pt(10, 10)
(* A point inside the rectangle of page 2 *)
P2 == Pt(60, 1250)

(* Layer ids: "layer-1".."layer-3" of initialState, `layer-${Date.now()}` *)
(* of the layer panel.                                                  *)
LayerId(n) == <<"layer", "fixed", n>>
TimedLayerId(t) == <<"layer", "time", t>>

----------------------------------------------------------------------------
(* Sequence helpers standing for Array.prototype methods (filter is       *)
(* SelectSeq, map a function over the index set)                          *)

Includes(seq, v) == \E i \in DOMAIN seq : seq[i] = v

Slice(seq, n) == SubSeq(seq, 1, IF n < Len(seq) THEN n ELSE Len(seq))

Max(a, b) == IF a >= b THEN a ELSE b
Min(a, b) == IF a <= b THEN a ELSE b

----------------------------------------------------------------------------
(* initialState *)

initialLayers ==
  << [id |-> LayerId(1), visible |-> TRUE, locked |-> FALSE],
     [id |-> LayerId(2), visible |-> TRUE, locked |-> FALSE],
     [id |-> LayerId(3), visible |-> TRUE, locked |-> FALSE] >>

initialState ==
  [ currentTool |-> "select",
    elements |-> <<>>,
    selectedElementIds |-> <<>>,
    layers |-> initialLayers,
    currentLayerId |-> LayerId(1),
    history |-> << <<>> >>,
    historyIndex |-> 0,
    eraserStrokeWidth |-> EraserStrokeWidth,
    snapThreshold |-> SnapThreshold,
    zoom |-> ZoomUnit,
    minZoom |-> InitialMinZoom,
    panOffset |-> Pt(0, 0),
    textFontSize |-> TextFontSize,
    currentPage |-> 1,
    totalPages |-> 1,
    pageWidth |-> PageWidth,
    pageHeight |-> PageHeight ]

----------------------------------------------------------------------------
(* drawingReducer, one operator per case.  historyIndex is 0-based as in   *)
(* the code; history[i] of the code is s.history[i + 1] here.              *)

SET_TOOL(s, a) ==
  [s EXCEPT !.currentTool = a.tool, !.selectedElementIds = <<>>]

(* Mutant: the new snapshot is appended without discarding the redo tail. *)
ADD_ELEMENT_NoTruncate(s, a) ==
  LET newElements == Append(s.elements, a.element)
  IN [s EXCEPT !.elements = newElements,
               !.history = Append(s.history, newElements),
               !.historyIndex = s.historyIndex + 1]

ADD_ELEMENT(s, a) ==
  LET newElements == Append(s.elements, a.element)
  IN [s EXCEPT !.elements = newElements,
               !.history = Append(Slice(s.history, s.historyIndex + 1), newElements),
               !.historyIndex = s.historyIndex + 1]

(* Mutant: every update of an element is a snapshot of its own. *)
UPDATE_ELEMENT_SavesSnapshot(s, a) ==
  LET elements == [i \in DOMAIN s.elements |->
                     IF s.elements[i].id = a.id THEN [s.elements[i] EXCEPT !.points = a.points]
                                                ELSE s.elements[i]]
  IN [s EXCEPT !.elements = elements,
               !.history = Append(Slice(s.history, s.historyIndex + 1), elements),
               !.historyIndex = s.historyIndex + 1]

UPDATE_ELEMENT(s, a) ==
  [s EXCEPT !.elements =
     [i \in DOMAIN s.elements |->
        IF s.elements[i].id = a.id THEN [s.elements[i] EXCEPT !.points = a.points]
                                   ELSE s.elements[i]]]

(* Mutant: the snapshot pushed is the list before the deletion. *)
DELETE_ELEMENTS_StaleSnapshot(s, a) ==
  LET filteredElements == SelectSeq(s.elements, LAMBDA el : ~Includes(a.ids, el.id))
  IN [s EXCEPT !.elements = filteredElements,
               !.selectedElementIds = <<>>,
               !.history = Append(Slice(s.history, s.historyIndex + 1), s.elements),
               !.historyIndex = s.historyIndex + 1]

DELETE_ELEMENTS(s, a) ==
  LET filteredElements == SelectSeq(s.elements, LAMBDA el : ~Includes(a.ids, el.id))
  IN [s EXCEPT !.elements = filteredElements,
               !.selectedElementIds = <<>>,
               !.history = Append(Slice(s.history, s.historyIndex + 1), filteredElements),
               !.historyIndex = s.historyIndex + 1]

(* Mutant: the new snapshot is appended without discarding the redo tail. *)
REPLACE_ELEMENTS_NoTruncate(s, a) ==
  [s EXCEPT !.elements = a.elements,
            !.selectedElementIds = <<>>,
            !.history = Append(s.history, a.elements),
            !.historyIndex = s.historyIndex + 1]

REPLACE_ELEMENTS(s, a) ==
  [s EXCEPT !.elements = a.elements,
            !.selectedElementIds = <<>>,
            !.history = Append(Slice(s.history, s.historyIndex + 1), a.elements),
            !.historyIndex = s.historyIndex + 1]

SELECT_ELEMENTS(s, a) ==
  [s EXCEPT !.selectedElementIds = a.ids]

ADD_LAYER(s, a) ==
  [s EXCEPT !.layers = Append(s.layers, a.layer)]

UPDATE_LAYER(s, a) ==
  [s EXCEPT !.layers =
     [i \in DOMAIN s.layers |->
        LET l == s.layers[i]
        IN IF l.id = a.id
             THEN [l EXCEPT !.visible = IF a.field = "visible" THEN a.value ELSE l.visible,
                            !.locked = IF a.field = "locked" THEN a.value ELSE l.locked]
             ELSE l]]

(* Mutant: the current layer is always reset to the first remaining one. *)
DELETE_LAYER_AlwaysResetCurrent(s, a) ==
  IF Len(s.layers) <= 1 THEN s
  ELSE LET layers == SelectSeq(s.layers, LAMBDA l : l.id # a.id)
           elements == SelectSeq(s.elements, LAMBDA el : el.layerId # a.id)
       IN [s EXCEPT !.layers = layers, !.currentLayerId = layers[1].id, !.elements = elements]

(* Mutant: the last-layer guard is off by one. *)
DELETE_LAYER_GuardOffByOne(s, a) ==
  IF Len(s.layers) < 1 THEN s
  ELSE LET layers == SelectSeq(s.layers, LAMBDA l : l.id # a.id)
           currentLayerId == IF s.currentLayerId = a.id /\ layers # <<>>
                               THEN layers[1].id ELSE s.currentLayerId
           elements == SelectSeq(s.elements, LAMBDA el : el.layerId # a.id)
       IN [s EXCEPT !.layers = layers, !.currentLayerId = currentLayerId, !.elements = elements]

DELETE_LAYER(s, a) ==
  IF Len(s.layers) <= 1 THEN s
  ELSE LET layers == SelectSeq(s.layers, LAMBDA l : l.id # a.id)
           currentLayerId == IF s.currentLayerId = a.id THEN layers[1].id ELSE s.currentLayerId
           elements == SelectSeq(s.elements, LAMBDA el : el.layerId # a.id)
       IN [s EXCEPT !.layers = layers, !.currentLayerId = currentLayerId, !.elements = elements]

SET_CURRENT_LAYER(s, a) ==
  [s EXCEPT !.currentLayerId = a.id]

(* Mutant: the range check of UNDO is missing. *)
UNDO_Unguarded(s, a) ==
  [s EXCEPT !.elements = IF s.historyIndex > 0 THEN s.history[(s.historyIndex - 1) + 1] ELSE <<>>,
            !.historyIndex = s.historyIndex - 1,
            !.selectedElementIds = <<>>]

(* Mutant: an undo goes back to the select tool. *)
UNDO_ResetsTool(s, a) ==
  IF s.historyIndex > 0
    THEN [s EXCEPT !.elements = s.history[(s.historyIndex - 1) + 1],
                   !.historyIndex = s.historyIndex - 1,
                   !.selectedElementIds = <<>>,
                   !.currentTool = "select"]
    ELSE s

UNDO(s, a) ==
  IF s.historyIndex > 0
    THEN [s EXCEPT !.elements = s.history[(s.historyIndex - 1) + 1],
                   !.historyIndex = s.historyIndex - 1,
                   !.selectedElementIds = <<>>]
    ELSE s

(* Mutant: a redo at the end of the history clears the selection. *)
REDO_ClearsSelection(s, a) ==
  IF s.historyIndex < Len(s.history) - 1
    THEN [s EXCEPT !.elements = s.history[(s.historyIndex + 1) + 1],
                   !.historyIndex = s.historyIndex + 1,
                   !.selectedElementIds = <<>>]
    ELSE [s EXCEPT !.selectedElementIds = <<>>]

(* Mutant: REDO advances the cursor but restores the snapshot it leaves. *)
REDO_WrongSnapshot(s, a) ==
  IF s.historyIndex < Len(s.history) - 1
    THEN [s EXCEPT !.elements = s.history[s.historyIndex + 1],
                   !.historyIndex = s.historyIndex + 1,
                   !.selectedElementIds = <<>>]
    ELSE s

REDO(s, a) ==
  IF s.historyIndex < Len(s.history) - 1
    THEN [s EXCEPT !.elements = s.history[(s.historyIndex + 1) + 1],
                   !.historyIndex = s.historyIndex + 1,
                   !.selectedElementIds = <<>>]
    ELSE s

SAVE_STATE(s, a) ==
  [s EXCEPT !.history = Append(Slice(s.history, s.historyIndex + 1), s.elements),
            !.historyIndex = s.historyIndex + 1]

(* Mutant: the requested zoom is not capped at 3. *)
SET_ZOOM_NoUpperBound(s, a) ==
  [s EXCEPT !.zoom = Max(s.minZoom, a.zoom)]

SET_ZOOM(s, a) ==
  [s EXCEPT !.zoom = Max(s.minZoom, Min(MaxZoom, a.zoom))]

SET_PAN(s, a) ==
  [s EXCEPT !.panOffset = a.offset]

SET_MIN_ZOOM(s, a) ==
  [s EXCEPT !.minZoom = Min(ZoomUnit, Max(MinZoomFloor, a.minZoom))]

(* toolSettings[action.tool] merged with action.settings; the state keeps *)
(* the eraser's strokeWidth and the text tool's fontSize.                  *)
UPDATE_TOOL_SETTINGS(s, a) ==
  [s EXCEPT !.eraserStrokeWidth =
              IF a.tool = "eraser" /\ "strokeWidth" \in DOMAIN a.settings
                THEN a.settings.strokeWidth ELSE s.eraserStrokeWidth,
            !.textFontSize =
              IF a.tool = "text" /\ "fontSize" \in DOMAIN a.settings
                THEN a.settings.fontSize ELSE s.textFontSize]

SET_CURRENT_PAGE(s, a) ==
  [s EXCEPT !.currentPage = Max(1, Min(a.page, s.totalPages))]

(* Mutant: the new page is appended but not made current. *)
ADD_PAGE_KeepsCurrent(s, a) ==
  [s EXCEPT !.totalPages = s.totalPages + 1]

ADD_PAGE(s, a) ==
  [s EXCEPT !.totalPages = s.totalPages + 1,
            !.currentPage = s.totalPages + 1]

(* Mutant: a page is removed and currentPage is left as it was. *)
DELETE_PAGE_KeepsCurrent(s, a) ==
  IF s.totalPages <= 1 THEN s
  ELSE [s EXCEPT !.totalPages = s.totalPages - 1]

DELETE_PAGE(s, a) ==
  IF s.totalPages <= 1 THEN s
  ELSE LET newTotalPages == s.totalPages - 1
           newCurrentPage == IF a.page <= s.currentPage /\ s.currentPage > 1
                               THEN s.currentPage - 1
                               ELSE IF s.currentPage > newTotalPages
                                      THEN newTotalPages
                                      ELSE s.currentPage
       IN [s EXCEPT !.totalPages = newTotalPages, !.currentPage = newCurrentPage]

drawingReducer(s, a) ==
  CASE a.type = "SET_TOOL" -> SET_TOOL(s, a)
    [] a.type = "ADD_ELEMENT" -> ADD_ELEMENT(s, a)
    [] a.type = "UPDATE_ELEMENT" -> UPDATE_ELEMENT(s, a)
    [] a.type = "DELETE_ELEMENTS" -> DELETE_ELEMENTS(s, a)
    [] a.type = "REPLACE_ELEMENTS" -> REPLACE_ELEMENTS(s, a)
    [] a.type = "SELECT_ELEMENTS" -> SELECT_ELEMENTS(s, a)
    [] a.type = "ADD_LAYER" -> ADD_LAYER(s, a)
    [] a.type = "UPDATE_LAYER" -> UPDATE_LAYER(s, a)
    [] a.type = "DELETE_LAYER" -> DELETE_LAYER(s, a)
    [] a.type = "SET_CURRENT_LAYER" -> SET_CURRENT_LAYER(s, a)
    [] a.type = "UNDO" -> UNDO(s, a)
    [] a.type = "REDO" -> REDO(s, a)
    [] a.type = "SAVE_STATE" -> SAVE_STATE(s, a)
    [] a.type = "UPDATE_TOOL_SETTINGS" -> UPDATE_TOOL_SETTINGS(s, a)
    [] a.type = "SET_ZOOM" -> SET_ZOOM(s, a)
    [] a.type = "SET_PAN" -> SET_PAN(s, a)
    [] a.type = "SET_MIN_ZOOM" -> SET_MIN_ZOOM(s, a)
    [] a.type = "SET_CURRENT_PAGE" -> SET_CURRENT_PAGE(s, a)
    [] a.type = "ADD_PAGE" -> ADD_PAGE(s, a)
    [] a.type = "DELETE_PAGE" -> DELETE_PAGE(s, a)
    [] OTHER -> s

----------------------------------------------------------------------------
(* DrawingCanvas: page layout *)

getPageBounds(s, pageNumber) ==
  [ x |-> CANVAS_PADDING,
    y |-> CANVAS_PADDING + (pageNumber - 1) * (s.pageHeight + PAGE_MARGIN),
    width |-> s.pageWidth,
    height |-> s.pageHeight ]

(* Content dimensions: all pages and the padding around them *)
getContentSize(s) ==
  [ totalWidth |-> CANVAS_PADDING * 2 + s.pageWidth,
    totalHeight |-> CANVAS_PADDING * 2 + s.totalPages * s.pageHeight
                      + (s.totalPages - 1) * PAGE_MARGIN ]

(* rect.width / state.zoom and rect.height / state.zoom, rounded down *)
viewW(s, rect) == (rect.width * ZoomUnit) \div s.zoom
viewH(s, rect) == (rect.height * ZoomUnit) \div s.zoom

(* Mutant: an axis on which the content fits is clamped like the other *)
(* case and not centred.                                                *)
clampPan_NoCentre(s, rect, pan) ==
  LET size == getContentSize(s)
  IN Pt(Max(Min(0, 0 - (size.totalWidth - viewW(s, rect))), Min(0, pan.x)),
        Max(Min(0, 0 - (size.totalHeight - viewH(s, rect))), Min(0, pan.y)))

(* One axis of clampPan: the content's and the view's extent on it, and *)
(* the offset to clamp.                                                  *)
clampAxis(content, view, offset) ==
  IF content <= view THEN (view - content) \div 2
  ELSE Max(0 - (content - view), Min(0, offset))

(* clampPan of a render whose state is s, with the container's rect *)
clampPan(s, rect, pan) ==
  LET size == getContentSize(s)
  IN Pt(clampAxis(size.totalWidth, viewW(s, rect), pan.x),
        clampAxis(size.totalHeight, viewH(s, rect), pan.y))

canPan(s, rect) ==
  LET size == getContentSize(s)
  IN size.totalWidth > viewW(s, rect) \/ size.totalHeight > viewH(s, rect)

(* The actions computeAndApplyMinZoom dispatches from a render of s *)
computeAndApplyMinZoom(s, rect) ==
  LET widthBasedMin == (rect.width * ZoomUnit) \div getContentSize(s).totalWidth
      newMinZoom == Min(ZoomUnit, Max(comfortableMin, widthBasedMin))
  IN << [type |-> "SET_MIN_ZOOM", minZoom |-> newMinZoom] >>
       \o (IF s.zoom < newMinZoom
             THEN << [type |-> "SET_ZOOM", zoom |-> newMinZoom] >>
             ELSE <<>>)

(* The actions resizeCanvas dispatches: it is the body of an effect that  *)
(* runs after every render whose state differs, and the window's resize   *)
(* listener.                                                              *)
resizeCanvas(s, rect) ==
  LET clamped == clampPan(s, rect, s.panOffset)
  IN computeAndApplyMinZoom(s, rect)
       \o (IF clamped # s.panOffset
             THEN << [type |-> "SET_PAN", offset |-> clamped] >>
             ELSE <<>>)

(* The actions the centring effect dispatches from a render of s *)
centerAxis(content, view, offset) ==
  IF content <= view THEN (view - content) \div 2 ELSE offset

centerEffect(s, rect) ==
  LET size == getContentSize(s)
      desired == Pt(centerAxis(size.totalWidth, viewW(s, rect), s.panOffset.x),
                    centerAxis(size.totalHeight, viewH(s, rect), s.panOffset.y))
      clamped == clampPan(s, rect, desired)
  IN IF clamped # s.panOffset
       THEN << [type |-> "SET_PAN", offset |-> clamped] >>
       ELSE <<>>

InBounds(point, bounds) ==
  /\ point.x >= bounds.x /\ point.x <= bounds.x + bounds.width
  /\ point.y >= bounds.y /\ point.y <= bounds.y + bounds.height

(* The page number, or 0 for null. *)
getPageAtPoint(s, point) ==
  LET pages == {page \in 1..s.totalPages : InBounds(point, getPageBounds(s, page))}
  IN IF pages = {} THEN 0 ELSE CHOOSE page \in pages : \A q \in pages : page <= q

clipToPageBounds(s, point) ==
  LET pageNumber == getPageAtPoint(s, point)
  IN IF pageNumber = 0 THEN point
     ELSE LET bounds == getPageBounds(s, pageNumber)
          IN Pt(Max(bounds.x, Min(bounds.x + bounds.width, point.x)),
                Max(bounds.y, Min(bounds.y + bounds.height, point.y)))

----------------------------------------------------------------------------
(* Hit testing (SelectTool and EraserTool carry the same isPointNearLine)  *)
(* threshold2 is twice the threshold, so that strokeWidth / 2 stays an    *)
(* integer: dist <= threshold  <=>  4 * dist^2 <= threshold2^2.           *)

isPointNearLine(point, lineStart, lineEnd, threshold2) ==
  LET A == point.x - lineStart.x
      B == point.y - lineStart.y
      C == lineEnd.x - lineStart.x
      D == lineEnd.y - lineStart.y
      dot == A * C + B * D
      lenSq == C * C + D * D
      ex == point.x - lineEnd.x
      ey == point.y - lineEnd.y
  IN IF lenSq = 0 THEN 4 * (A * A + B * B) <= threshold2 * threshold2
     ELSE IF dot < 0 THEN 4 * (A * A + B * B) <= threshold2 * threshold2
     ELSE IF dot > lenSq THEN 4 * (ex * ex + ey * ey) <= threshold2 * threshold2
     ELSE 4 * ((A * A + B * B) * lenSq - dot * dot) <= threshold2 * threshold2 * lenSq

FontSizeOf(element) == IF element.fontSize = 0 THEN 14 ELSE element.fontSize

(* The per-type geometry test; margin2 is twice the margin added around a  *)
(* text box (0 for select, the eraser size for the eraser).                *)
GeometryHit(element, point, threshold2, margin2) ==
  CASE element.type = "line" ->
         /\ Len(element.points) >= 2
         /\ isPointNearLine(point, element.points[1], element.points[2], threshold2)
    [] element.type = "angle" ->
         /\ Len(element.points) >= 3
         /\ \/ isPointNearLine(point, element.points[1], element.points[2], threshold2)
            \/ isPointNearLine(point, element.points[2], element.points[3], threshold2)
    [] element.type = "freehand" ->
         \E j \in 1..(Len(element.points) - 1) :
            isPointNearLine(point, element.points[j], element.points[j + 1], threshold2)
    [] element.type = "text" ->
         /\ Len(element.points) > 0
         /\ element.text # ""
         /\ LET textPoint == element.points[1]
                textWidth10 == Len(element.text) * FontSizeOf(element) * 6
            IN /\ 10 * point.x >= 10 * textPoint.x - 5 * margin2
               /\ 10 * point.x <= 10 * textPoint.x + textWidth10 + 5 * margin2
               /\ 2 * point.y >= 2 * textPoint.y - margin2
               /\ 2 * point.y <= 2 * (textPoint.y + FontSizeOf(element)) + margin2
    [] OTHER -> FALSE

(* layer?.visible && !layer.locked of the first layer with that id *)
LayerEditable(s, layerId) ==
  \E i \in DOMAIN s.layers :
     /\ s.layers[i].id = layerId
     /\ \A k \in 1..(i - 1) : s.layers[k].id # layerId
     /\ s.layers[i].visible
     /\ ~s.layers[i].locked

(* EraserTool: the ids to erase, in element order *)
findElementsToErase(s, point) ==
  LET eraserSize2 == s.eraserStrokeWidth
      hit == SelectSeq(s.elements, LAMBDA el :
                /\ LayerEditable(s, el.layerId)
                /\ GeometryHit(el, point, eraserSize2, eraserSize2))
  IN [i \in DOMAIN hit |-> hit[i].id]

(* Mutant: the search runs from the first element on. *)
findElementAtPoint_Bottommost(s, point) ==
  LET hits == {i \in DOMAIN s.elements :
                 /\ LayerEditable(s, s.elements[i].layerId)
                 /\ GeometryHit(s.elements[i], point, 2 * s.snapThreshold, 0)}
  IN IF hits = {} THEN <<>>
     ELSE << s.elements[CHOOSE i \in hits : \A k \in hits : i <= k] >>

(* SelectTool: <<>> for null, else <<element>>, the topmost hit *)
findElementAtPoint(s, point) ==
  LET hits == {i \in DOMAIN s.elements :
                 /\ LayerEditable(s, s.elements[i].layerId)
                 /\ GeometryHit(s.elements[i], point, 2 * s.snapThreshold, 0)}
  IN IF hits = {} THEN <<>>
     ELSE << s.elements[CHOOSE i \in hits : \A k \in hits : k <= i] >>

----------------------------------------------------------------------------
(* dispatch.  A handler dispatches a list of actions; useReducer applies   *)
(* them in order to the latest state.                                      *)
(*                                                                         *)
(* obs is a history variable.  It follows the dispatched actions:          *)
(*   ev       name of the latest event                                     *)
(*   last     tag of the last action dispatched by the latest event, ""    *)
(*            when the event dispatched none; UNDO / REDO out of range     *)
(*            are tagged "UNDO-" / "REDO-"                                  *)
(*   "sig"    only history-significant actions so far, n of them           *)
(*   "undo"   ... followed by k UNDOs (k <= n); base = elements before     *)
(*   "redo"   ... followed by j REDOs (j <= k)                             *)
(*   "trunc"  n significant actions, one UNDO, one significant action      *)
(*   "other"  any other sequence                                           *)
(* and the pointer gestures (g):                                           *)
(*   kind     "eraser" / "select" once a pointer-down started a gesture,   *)
(*            "line" once the pointer-up of the line tool added a line     *)
(*   phase    "active" until pointer-up, "done" after it, "undone" after   *)
(*            one UNDO that directly follows the pointer-up, and for a     *)
(*            line "redone" after one REDO that directly follows the UNDO  *)
(*   before, hist, idx   elements, history, historyIndex at pointer-down   *)
(*            (for a line: at the pointer-up, before the ADD_ELEMENT)      *)
(*   flag     eraser: an element was deleted; select: a move translated    *)
(*   added    line: the element of the ADD_ELEMENT                         *)
(* Any event that is not part of the gesture ends the tracking.            *)

Significant == {"ADD_ELEMENT", "DELETE_ELEMENTS", "REPLACE_ELEMENTS", "SAVE_STATE"}

runOther == [phase |-> "other", n |-> 0, k |-> 0, j |-> 0, base |-> <<>>]

gNone == [kind |-> "none", phase |-> "", before |-> <<>>, hist |-> <<>>, idx |-> 0, flag |-> FALSE]

obsInit == [run |-> [phase |-> "sig", n |-> 0, k |-> 0, j |-> 0, base |-> <<>>],
            ev |-> "",
            last |-> "",
            g |-> gNone]

Tag(s, a) ==
  CASE a.type = "UNDO" /\ ~(s.historyIndex > 0) -> "UNDO-"
    [] a.type = "REDO" /\ ~(s.historyIndex < Len(s.history) - 1) -> "REDO-"
    [] OTHER -> a.type

(* Actions that read and write neither elements nor history: the run is   *)
(* followed through them.                                                  *)
Neutral == {"SET_TOOL", "SELECT_ELEMENTS", "ADD_LAYER", "UPDATE_LAYER", "SET_CURRENT_LAYER",
            "SET_CURRENT_PAGE", "ADD_PAGE", "DELETE_PAGE"}

ObserveRun(o, s, a) ==
  CASE a.type \in Neutral -> o
    [] o.phase = "sig" /\ a.type \in Significant -> [o EXCEPT !.n = o.n + 1]
    [] o.phase = "sig" /\ a.type = "UNDO" /\ o.n >= 1 ->
         [o EXCEPT !.phase = "undo", !.k = 1, !.base = s.elements]
    [] o.phase = "undo" /\ a.type = "UNDO" /\ o.k < o.n -> [o EXCEPT !.k = o.k + 1]
    [] o.phase = "undo" /\ a.type = "REDO" -> [o EXCEPT !.phase = "redo", !.j = 1]
    [] o.phase = "undo" /\ a.type \in Significant /\ o.k = 1 ->
         [o EXCEPT !.phase = "trunc", !.base = <<>>]
    [] o.phase = "redo" /\ a.type = "REDO" /\ o.j < o.k -> [o EXCEPT !.j = o.j + 1]
    [] OTHER -> runOther

ObserveGesture(g, event, s, actions) ==
  CASE event = "eraser.down" ->
         [kind |-> "eraser", phase |-> "active", before |-> s.elements,
          hist |-> s.history, idx |-> s.historyIndex, flag |-> actions # <<>>]
    [] event = "eraser.move" /\ g.kind = "eraser" /\ g.phase = "active" ->
         [g EXCEPT !.flag = g.flag \/ actions # <<>>]
    [] event = "eraser.up" /\ g.kind = "eraser" /\ g.phase = "active" ->
         [g EXCEPT !.phase = "done"]
    [] event = "select.down" /\ actions[1].ids # <<>> ->
         [kind |-> "select", phase |-> "active", before |-> s.elements,
          hist |-> s.history, idx |-> s.historyIndex, flag |-> FALSE]
    [] event = "select.move" /\ g.kind = "select" /\ g.phase = "active" ->
         [g EXCEPT !.flag = TRUE]
    [] event = "select.up" /\ g.kind = "select" /\ g.phase = "active" ->
         [g EXCEPT !.phase = "done"]
    [] event = "line.up" /\ actions # <<>> ->
         [kind |-> "line", phase |-> "done", before |-> s.elements,
          hist |-> s.history, idx |-> s.historyIndex, flag |-> FALSE,
          added |-> actions[1].element]
    [] event = "undo" /\ g.phase = "done" -> [g EXCEPT !.phase = "undone"]
    [] event = "redo" /\ g.kind = "line" /\ g.phase = "undone" ->
         [g EXCEPT !.phase = "redone"]
    [] OTHER -> gNone

RECURSIVE Run(_, _, _)
Run(s, o, actions) ==
  IF actions = <<>> THEN [st |-> s, ob |-> o]
  ELSE LET a == Head(actions)
       IN Run(drawingReducer(s, a),
              [o EXCEPT !.run = ObserveRun(o.run, s, a), !.last = Tag(s, a)],
              Tail(actions))

(* The effects of one render of s, in the order of their declaration:  *)
(* their actions go through the reducer one after the other.            *)
RECURSIVE Reduce(_, _)
Reduce(s, actions) ==
  IF actions = <<>> THEN s
  ELSE Reduce(drawingReducer(s, Head(actions)), Tail(actions))

(* Mutant: the effects recompute the zoom floor and leave the pan alone. *)
EffectPass_MinZoomOnly(s, rect) == Reduce(s, computeAndApplyMinZoom(s, rect))

EffectPass(s, rect) == Reduce(s, resizeCanvas(s, rect) \o centerEffect(s, rect))

(* Renders and effect passes follow each other until a pass changes no   *)
(* value of the state; the effects dispatch SET_MIN_ZOOM, SET_ZOOM and   *)
(* SET_PAN, which change zoom, minZoom and panOffset.                    *)
RECURSIVE Settle(_, _, _)
Settle(s, rect, passes) ==
  IF passes = 0 THEN s
  ELSE LET t == EffectPass(s, rect)
       IN IF t.zoom = s.zoom /\ t.minZoom = s.minZoom /\ t.panOffset = s.panOffset
            THEN s
            ELSE Settle(t, rect, passes - 1)

(* What the effects read of a render's state *)
EffectInputs(s) == <<s.zoom, s.minZoom, s.panOffset, s.pageWidth, s.pageHeight, s.totalPages>>

(* Every reachable state is a fixed point of the effects in its container *)
EffectsSettled == EffectPass(state, viewport) = state

(* An event: the actions its handler dispatches, then the effects of the *)
(* renders that follow, with the container's rect as it is by then.  The *)
(* state before the event is a fixed point of the effects                *)
(* (EffectsSettled): when the handler changed nothing the effects read,  *)
(* their pass over the new state dispatches SET_MIN_ZOOM with the value  *)
(* minZoom has, and nothing else.                                        *)
dispatchIn(event, actions, rect) ==
  \E r \in { Run(state,
                  [obs EXCEPT !.ev = event, !.last = "",
                              !.g = ObserveGesture(obs.g, event, state, actions)],
                  actions) } :
     /\ Len(r.st.history) <= MaxHistory
     /\ \E st \in {r.st} :
           state' = IF rect = viewport /\ EffectInputs(st) = EffectInputs(state)
                      THEN st
                      ELSE Settle(st, rect, MaxPasses)
     /\ obs' = r.ob

dispatch(event, actions) == dispatchIn(event, actions, viewport)

----------------------------------------------------------------------------
(* Toolbar.  Only the tool of state.currentTool is mounted on the canvas;  *)
(* choosing another tool unmounts it, which drops the useState values the *)
(* SelectTool, the AngleTool and the TextTool own.  isDrawing and         *)
(* currentElement belong to the canvas and stay.                          *)

handleToolSelect(tool) ==
  /\ dispatch("tool", << [type |-> "SET_TOOL", tool |-> tool] >>)
  /\ isDragging' = IF tool = state.currentTool THEN isDragging ELSE FALSE
  /\ dragStart' = IF tool = state.currentTool THEN dragStart ELSE <<>>
  /\ clickCount' = IF tool = state.currentTool THEN clickCount ELSE 0
  /\ textInput' = IF tool = state.currentTool THEN textInput ELSE ""
  /\ inputPosition' = IF tool = state.currentTool THEN inputPosition ELSE <<>>
  /\ showInput' = IF tool = state.currentTool THEN showInput ELSE FALSE
  /\ inputFocused' = IF tool = state.currentTool THEN inputFocused ELSE FALSE
  /\ blurTimers' = IF tool = state.currentTool THEN blurTimers
                   ELSE [i \in DOMAIN blurTimers |-> [blurTimers[i] EXCEPT !.mounted = FALSE]]
  /\ UNCHANGED <<isDrawing, currentElement, pendingImport, now>>
  /\ UNCHANGED canvasLocal

(* DrawingCanvas keyboard shortcuts.  active is document.activeElement:  *)
(* its tag name and isContentEditable.                                   *)
Body == [tagName |-> "body", isContentEditable |-> FALSE]
LayerNameInput == [tagName |-> "input", isContentEditable |-> FALSE]

isTextInput(el) ==
  el.tagName = "input" \/ el.tagName = "textarea" \/ el.isContentEditable

(* A keydown carries the event name of its handler, followed by ".input" *)
(* when the focus is in a text input.                                    *)
KeyEvent(name, active) == IF isTextInput(active) THEN name \o ".input" ELSE name

(* key: "undo" for mod+z, "redo" for mod+shift+z / ctrl+y *)
onKeyDown(active, key) ==
  /\ IF isTextInput(active)
       THEN dispatch(KeyEvent("shortcut", active), <<>>)
       ELSE IF key = "undo"
              THEN dispatch(KeyEvent("shortcut", active), << [type |-> "UNDO"] >>)
              ELSE dispatch(KeyEvent("shortcut", active), << [type |-> "REDO"] >>)
  /\ UNCHANGED <<isDrawing, currentElement, isDragging, dragStart, pendingImport, now>>
  /\ UNCHANGED toolLocal
  /\ UNCHANGED canvasLocal

handleUndo ==
  /\ dispatch("undo", << [type |-> "UNDO"] >>)
  /\ UNCHANGED <<isDrawing, currentElement, isDragging, dragStart, pendingImport, now>>
  /\ UNCHANGED toolLocal
  /\ UNCHANGED canvasLocal

handleRedo ==
  /\ dispatch("redo", << [type |-> "REDO"] >>)
  /\ UNCHANGED <<isDrawing, currentElement, isDragging, dragStart, pendingImport, now>>
  /\ UNCHANGED toolLocal
  /\ UNCHANGED canvasLocal

----------------------------------------------------------------------------
(* LayerPanel *)

FindLayer(s, layerId) ==
  LET idx == {i \in DOMAIN s.layers : s.layers[i].id = layerId}
  IN IF idx = {} THEN <<>> ELSE << s.layers[CHOOSE i \in idx : \A k \in idx : i <= k] >>

LayerIdsOf(s) == {s.layers[i].id : i \in DOMAIN s.layers}

handleAddLayer ==
  /\ Len(state.layers) < MaxLayers
  /\ now <= MaxNow
  /\ dispatch("layer.add",
              << [type |-> "ADD_LAYER",
                  layer |-> [id |-> TimedLayerId(now), visible |-> TRUE, locked |-> FALSE]] >>)
  /\ now' = now + 1
  /\ UNCHANGED <<isDrawing, currentElement, isDragging, dragStart, pendingImport>>
  /\ UNCHANGED toolLocal
  /\ UNCHANGED canvasLocal

(* Both delete buttons are rendered for the current layer only. *)
(* PropertiesPanel: the zoom slider and the zoom buttons *)
handleZoomChange(zoom) ==
  /\ dispatch("zoom.set", << [type |-> "SET_ZOOM", zoom |-> zoom] >>)
  /\ UNCHANGED <<isDrawing, currentElement, isDragging, dragStart, pendingImport, now>>
  /\ UNCHANGED toolLocal
  /\ UNCHANGED canvasLocal

(* DrawingCanvas handleWheel.  With Ctrl or Cmd the wheel zooms by 0.9 or *)
(* 1.1 and clamps the pan with the zoom of the render the handler closes  *)
(* over; otherwise it scrolls vertically by deltaY / zoom.                *)
handleWheel(ctrlKey, deltaY) ==
  /\ IF ctrlKey
       THEN LET newZoom == IF deltaY > 0 THEN (state.zoom * 9) \div 10
                                         ELSE (state.zoom * 11) \div 10
                clamped == clampPan(state, viewport, state.panOffset)
            IN dispatch("wheel.zoom",
                        << [type |-> "SET_ZOOM", zoom |-> newZoom] >>
                          \o (IF clamped # state.panOffset
                                THEN << [type |-> "SET_PAN", offset |-> clamped] >>
                                ELSE <<>>))
       ELSE IF ~canPan(state, viewport)
              THEN dispatch("wheel.pan", <<>>)
              ELSE LET delta == (deltaY * ZoomUnit) \div state.zoom
                       nextPan == Pt(state.panOffset.x, state.panOffset.y - delta)
                   IN dispatch("wheel.pan",
                               << [type |-> "SET_PAN",
                                   offset |-> clampPan(state, viewport, nextPan)] >>)
  /\ UNCHANGED <<isDrawing, currentElement, isDragging, dragStart, pendingImport, now>>
  /\ UNCHANGED toolLocal
  /\ UNCHANGED canvasLocal

(* DrawingCanvas handleMouseDown, handleMouseMove and handleMouseUp: the  *)
(* pan gesture, with Shift held or the middle button.  The SelectTool     *)
(* mounted on the same canvas skips a pointer-down with Shift held and,   *)
(* not dragging, does nothing on move and up.                             *)
handleMouseDown(client) ==
  /\ state.currentTool = "select" /\ ~isDragging
  /\ dispatch("pan.down", <<>>)
  /\ IF canPan(state, viewport)
       THEN isPanning' = TRUE /\ lastPanPoint' = <<client>>
       ELSE UNCHANGED <<isPanning, lastPanPoint>>
  /\ UNCHANGED <<isDrawing, currentElement, isDragging, dragStart, pendingImport, now>>
  /\ UNCHANGED toolLocal
  /\ UNCHANGED viewport

handleMouseMove(client) ==
  /\ state.currentTool = "select" /\ ~isDragging
  /\ IF isPanning /\ lastPanPoint # <<>>
       THEN LET deltaX == ((client.x - lastPanPoint[1].x) * ZoomUnit) \div state.zoom
                deltaY == ((client.y - lastPanPoint[1].y) * ZoomUnit) \div state.zoom
                nextPan == Pt(state.panOffset.x + deltaX, state.panOffset.y + deltaY)
            IN /\ dispatch("pan.move",
                           << [type |-> "SET_PAN",
                               offset |-> clampPan(state, viewport, nextPan)] >>)
               /\ lastPanPoint' = <<client>>
       ELSE /\ dispatch("pan.move", <<>>)
            /\ UNCHANGED lastPanPoint
  /\ UNCHANGED <<isDrawing, currentElement, isDragging, dragStart, pendingImport, now>>
  /\ UNCHANGED toolLocal
  /\ UNCHANGED <<viewport, isPanning>>

handleMouseUp ==
  /\ state.currentTool = "select" /\ ~isDragging
  /\ dispatch("pan.up", <<>>)
  /\ isPanning' = FALSE
  /\ lastPanPoint' = <<>>
  /\ UNCHANGED <<isDrawing, currentElement, isDragging, dragStart, pendingImport, now>>
  /\ UNCHANGED toolLocal
  /\ UNCHANGED viewport

(* The window's resize listener: resizeCanvas with the container's new    *)
(* rect.                                                                  *)
windowResize(rect) ==
  /\ dispatchIn("resize", resizeCanvas(state, rect), rect)
  /\ viewport' = rect
  /\ UNCHANGED <<isDrawing, currentElement, isDragging, dragStart, pendingImport, now>>
  /\ UNCHANGED toolLocal
  /\ UNCHANGED <<isPanning, lastPanPoint>>

(* PagesPanel: the page buttons, the delete buttons and "Add page".    *)
handleSelect(page) ==
  /\ dispatch("page.select", << [type |-> "SET_CURRENT_PAGE", page |-> page] >>)
  /\ UNCHANGED <<isDrawing, currentElement, isDragging, dragStart, pendingImport, now>>
  /\ UNCHANGED toolLocal
  /\ UNCHANGED canvasLocal

handleDelete(page) ==
  /\ IF state.totalPages <= 1
       THEN dispatch("page.delete", <<>>)
       ELSE dispatch("page.delete", << [type |-> "DELETE_PAGE", page |-> page] >>)
  /\ UNCHANGED <<isDrawing, currentElement, isDragging, dragStart, pendingImport, now>>
  /\ UNCHANGED toolLocal
  /\ UNCHANGED canvasLocal

handleAdd ==
  /\ state.totalPages < MaxPages
  /\ dispatch("page.add", << [type |-> "ADD_PAGE"] >>)
  /\ UNCHANGED <<isDrawing, currentElement, isDragging, dragStart, pendingImport, now>>
  /\ UNCHANGED toolLocal
  /\ UNCHANGED canvasLocal

handleDeleteLayer ==
  /\ ~(Len(state.layers) <= 1)
  /\ dispatch("layer.delete", << [type |-> "DELETE_LAYER", id |-> state.currentLayerId] >>)
  /\ UNCHANGED <<isDrawing, currentElement, isDragging, dragStart, pendingImport, now>>
  /\ UNCHANGED toolLocal
  /\ UNCHANGED canvasLocal

toggleLayerVisibility(layerId) ==
  /\ FindLayer(state, layerId) # <<>>
  /\ dispatch("layer.visible",
              << [type |-> "UPDATE_LAYER", id |-> layerId, field |-> "visible",
                  value |-> ~FindLayer(state, layerId)[1].visible] >>)
  /\ UNCHANGED <<isDrawing, currentElement, isDragging, dragStart, pendingImport, now>>
  /\ UNCHANGED toolLocal
  /\ UNCHANGED canvasLocal

toggleLayerLock(layerId) ==
  /\ FindLayer(state, layerId) # <<>>
  /\ dispatch("layer.lock",
              << [type |-> "UPDATE_LAYER", id |-> layerId, field |-> "locked",
                  value |-> ~FindLayer(state, layerId)[1].locked] >>)
  /\ UNCHANGED <<isDrawing, currentElement, isDragging, dragStart, pendingImport, now>>
  /\ UNCHANGED toolLocal
  /\ UNCHANGED canvasLocal

setCurrentLayer(layerId) ==
  /\ FindLayer(state, layerId) # <<>>
  /\ ~FindLayer(state, layerId)[1].locked
  /\ dispatch("layer.current", << [type |-> "SET_CURRENT_LAYER", id |-> layerId] >>)
  /\ UNCHANGED <<isDrawing, currentElement, isDragging, dragStart, pendingImport, now>>
  /\ UNCHANGED toolLocal
  /\ UNCHANGED canvasLocal

----------------------------------------------------------------------------
(* LineTool *)

(* A pointer-down of a creating tool on a point of no page carries the    *)
(* event name of the tool followed by ".nopage".                          *)
DownEvent(tool, point) ==
  IF getPageAtPoint(state, point) = 0 THEN tool \o ".nopage" ELSE tool

(* Mutant: the page test of the pointer-down is missing. *)
LineMouseDown_NoPageCheck(point) ==
  /\ state.currentTool = "line"
  /\ now <= MaxNow
  /\ dispatch(DownEvent("line.down", point), <<>>)
  /\ LET clippedPoint == clipToPageBounds(state, point)
         newElement == [id |-> <<"line", now>>, type |-> "line",
                        points |-> <<clippedPoint, clippedPoint>>,
                        layerId |-> state.currentLayerId,
                        text |-> "", fontSize |-> 0]
     IN currentElement' = <<newElement>>
  /\ isDrawing' = TRUE
  /\ now' = now + 1
  /\ UNCHANGED <<isDragging, dragStart, pendingImport>>
  /\ UNCHANGED toolLocal
  /\ UNCHANGED canvasLocal

LineMouseDown(point) ==
  /\ state.currentTool = "line"
  /\ now <= MaxNow
  /\ dispatch(DownEvent("line.down", point), <<>>)
  /\ IF getPageAtPoint(state, point) = 0
       THEN UNCHANGED <<currentElement, isDrawing, now>>
       ELSE /\ LET clippedPoint == clipToPageBounds(state, point)
                   newElement == [id |-> <<"line", now>>, type |-> "line",
                                  points |-> <<clippedPoint, clippedPoint>>,
                                  layerId |-> state.currentLayerId,
                                  text |-> "", fontSize |-> 0]
               IN currentElement' = <<newElement>>
            /\ isDrawing' = TRUE
            /\ now' = now + 1
  /\ UNCHANGED <<isDragging, dragStart, pendingImport>>
  /\ UNCHANGED toolLocal
  /\ UNCHANGED canvasLocal

(* Math.sqrt(Math.pow(dx, 2) + Math.pow(dy, 2)): the root when the sum is *)
(* a square, and <<"sqrt", sum>> for the irrational roots.               *)
Abs(n) == IF n < 0 THEN 0 - n ELSE n

Hypot(dx, dy) ==
  LET sum == dx * dx + dy * dy
      roots == {r \in 0..(Abs(dx) + Abs(dy)) : r * r = sum}
  IN IF roots = {} THEN <<"sqrt", sum>> ELSE CHOOSE r \in roots : TRUE

LineMouseMove(point) ==
  /\ state.currentTool = "line"
  /\ isDrawing /\ currentElement # <<>>
  /\ LET clippedPoint == clipToPageBounds(state, point)
         el == currentElement[1]
     IN currentElement' =
          << [id |-> el.id, type |-> el.type,
              points |-> <<el.points[1], clippedPoint>>,
              layerId |-> el.layerId, text |-> el.text, fontSize |-> el.fontSize,
              measurements |->
                [length |-> Hypot(clippedPoint.x - el.points[1].x,
                                  clippedPoint.y - el.points[1].y)]] >>
  /\ dispatch("line.move", <<>>)
  /\ UNCHANGED <<isDrawing, isDragging, dragStart, pendingImport, now>>
  /\ UNCHANGED toolLocal
  /\ UNCHANGED canvasLocal

LineMouseUp ==
  /\ state.currentTool = "line"
  /\ isDrawing /\ currentElement # <<>>
  /\ dispatch("line.up", << [type |-> "ADD_ELEMENT", element |-> currentElement[1]] >>)
  /\ currentElement' = <<>>
  /\ isDrawing' = FALSE
  /\ UNCHANGED <<isDragging, dragStart, pendingImport, now>>
  /\ UNCHANGED toolLocal
  /\ UNCHANGED canvasLocal

----------------------------------------------------------------------------
(* SelectTool *)

FindElement(s, id) ==
  LET idx == {i \in DOMAIN s.elements : s.elements[i].id = id}
  IN IF idx = {} THEN <<>> ELSE << s.elements[CHOOSE i \in idx : \A k \in idx : i <= k] >>

Translate(points, deltaX, deltaY) ==
  [i \in DOMAIN points |-> Pt(points[i].x + deltaX, points[i].y + deltaY)]

(* The UPDATE_ELEMENT actions of one mouse move: one per selected id that  *)
(* state.elements.find locates.                                            *)
RECURSIVE MoveActions(_, _, _, _)
MoveActions(s, ids, deltaX, deltaY) ==
  IF ids = <<>> THEN <<>>
  ELSE LET element == FindElement(s, Head(ids))
           rest == MoveActions(s, Tail(ids), deltaX, deltaY)
       IN IF element = <<>> THEN rest
          ELSE << [type |-> "UPDATE_ELEMENT", id |-> Head(ids),
                   points |-> Translate(element[1].points, deltaX, deltaY)] >> \o rest

CoordsWithinBound(actions) ==
  \A i \in DOMAIN actions : \A k \in DOMAIN actions[i].points :
     /\ actions[i].points[k].x \in 0..MaxCoord
     /\ actions[i].points[k].y \in 0..MaxCoord

SelectMouseDown(point) ==
  /\ state.currentTool = "select"
  /\ LET clickedElement == findElementAtPoint(state, point)
     IN IF clickedElement # <<>>
          THEN /\ dispatch("select.down",
                           << [type |-> "SELECT_ELEMENTS", ids |-> << clickedElement[1].id >>] >>)
               /\ dragStart' = <<point>>
               /\ isDragging' = TRUE
          ELSE /\ dispatch("select.down", << [type |-> "SELECT_ELEMENTS", ids |-> <<>>] >>)
               /\ UNCHANGED <<dragStart, isDragging>>
  /\ UNCHANGED <<isDrawing, currentElement, pendingImport, now>>
  /\ UNCHANGED toolLocal
  /\ UNCHANGED canvasLocal

SelectMouseMove(point) ==
  /\ state.currentTool = "select"
  /\ isDragging /\ dragStart # <<>> /\ state.selectedElementIds # <<>>
  /\ LET deltaX == point.x - dragStart[1].x
         deltaY == point.y - dragStart[1].y
         actions == MoveActions(state, state.selectedElementIds, deltaX, deltaY)
     IN /\ CoordsWithinBound(actions)
        /\ dispatch("select.move", actions)
  /\ dragStart' = <<point>>
  /\ UNCHANGED <<isDrawing, currentElement, isDragging, pendingImport, now>>
  /\ UNCHANGED toolLocal
  /\ UNCHANGED canvasLocal

SelectMouseUp ==
  /\ state.currentTool = "select"
  /\ IF isDragging /\ state.selectedElementIds # <<>>
       THEN dispatch("select.up", << [type |-> "SAVE_STATE"] >>)
       ELSE dispatch("select.up", <<>>)
  /\ isDragging' = FALSE
  /\ dragStart' = <<>>
  /\ UNCHANGED <<isDrawing, currentElement, pendingImport, now>>
  /\ UNCHANGED toolLocal
  /\ UNCHANGED canvasLocal

SelectKeyDown ==
  /\ state.currentTool = "select"
  /\ state.selectedElementIds # <<>>
  /\ dispatch("select.key", << [type |-> "DELETE_ELEMENTS", ids |-> state.selectedElementIds] >>)
  /\ UNCHANGED <<isDrawing, currentElement, isDragging, dragStart, pendingImport, now>>
  /\ UNCHANGED toolLocal
  /\ UNCHANGED canvasLocal

(* The keydown listener of the select tool is on the document: it runs   *)
(* wherever the focus is, and reads e.key and the selection only.        *)
SelectKeyDownIn(active) ==
  /\ state.currentTool = "select"
  /\ state.selectedElementIds # <<>>
  /\ dispatch(KeyEvent("select.key", active),
              << [type |-> "DELETE_ELEMENTS", ids |-> state.selectedElementIds] >>)
  /\ UNCHANGED <<isDrawing, currentElement, isDragging, dragStart, pendingImport, now>>
  /\ UNCHANGED toolLocal
  /\ UNCHANGED canvasLocal

----------------------------------------------------------------------------
(* EraserTool *)

EraseActions(s, point) ==
  LET elementsToErase == findElementsToErase(s, point)
  IN IF Len(elementsToErase) > 0
       THEN << [type |-> "DELETE_ELEMENTS", ids |-> elementsToErase] >>
       ELSE <<>>

EraserMouseDown(point) ==
  /\ state.currentTool = "eraser"
  /\ getPageAtPoint(state, point) # 0
  /\ dispatch("eraser.down", EraseActions(state, point))
  /\ isDrawing' = TRUE
  /\ UNCHANGED <<currentElement, isDragging, dragStart, pendingImport, now>>
  /\ UNCHANGED toolLocal
  /\ UNCHANGED canvasLocal

EraserMouseMove(point) ==
  /\ state.currentTool = "eraser"
  /\ isDrawing
  /\ getPageAtPoint(state, point) # 0
  /\ dispatch("eraser.move", EraseActions(state, point))
  /\ UNCHANGED <<isDrawing, currentElement, isDragging, dragStart, pendingImport, now>>
  /\ UNCHANGED toolLocal
  /\ UNCHANGED canvasLocal

EraserMouseUp ==
  /\ state.currentTool = "eraser"
  /\ isDrawing
  /\ dispatch("eraser.up", << [type |-> "SAVE_STATE"] >>)
  /\ isDrawing' = FALSE
  /\ UNCHANGED <<currentElement, isDragging, dragStart, pendingImport, now>>
  /\ UNCHANGED toolLocal
  /\ UNCHANGED canvasLocal

----------------------------------------------------------------------------
(* AngleTool.  A handler that returns early is a step that changes         *)
(* nothing but the observer.                                               *)

AngleDownEvent(point) ==
  DownEvent(CASE clickCount = 0 -> "angle.click1"
              [] clickCount = 1 -> "angle.click2"
              [] OTHER -> "angle.click3", point)

AngleMouseDown(point) ==
  /\ state.currentTool = "angle"
  /\ LET clippedPoint == clipToPageBounds(state, point)
     IN CASE getPageAtPoint(state, point) = 0 ->
               /\ dispatch(AngleDownEvent(point), <<>>)
               /\ UNCHANGED <<currentElement, clickCount, isDrawing, now>>
          [] getPageAtPoint(state, point) # 0 /\ clickCount = 0 ->
               /\ now <= MaxNow
               /\ dispatch(AngleDownEvent(point), <<>>)
               /\ currentElement' = << [id |-> <<"angle", now>>, type |-> "angle",
                                        points |-> <<clippedPoint>>,
                                        layerId |-> state.currentLayerId,
                                        text |-> "", fontSize |-> 0] >>
               /\ clickCount' = 1
               /\ now' = now + 1
               /\ UNCHANGED isDrawing
          [] getPageAtPoint(state, point) # 0 /\ clickCount = 1 /\ currentElement # <<>> ->
               /\ dispatch(AngleDownEvent(point), <<>>)
               /\ currentElement' =
                    << [currentElement[1] EXCEPT !.points = Append(@, clippedPoint)] >>
               /\ clickCount' = 2
               /\ isDrawing' = TRUE
               /\ UNCHANGED now
          [] getPageAtPoint(state, point) # 0 /\ clickCount = 2 /\ currentElement # <<>> ->
               /\ dispatch(AngleDownEvent(point),
                           << [type |-> "ADD_ELEMENT",
                               element |-> [currentElement[1] EXCEPT
                                              !.points = Append(@, clippedPoint)]] >>)
               /\ currentElement' = <<>>
               /\ isDrawing' = FALSE
               /\ clickCount' = 0
               /\ UNCHANGED now
          [] OTHER ->
               /\ dispatch(AngleDownEvent(point), <<>>)
               /\ UNCHANGED <<currentElement, clickCount, isDrawing, now>>
  /\ UNCHANGED <<isDragging, dragStart, textInput, inputPosition, showInput, inputFocused,
                 blurTimers, pendingImport>>
  /\ UNCHANGED canvasLocal

(* Mutant: the preview of a move is committed to the document. *)
AngleMouseMove_CommitsPreview(point) ==
  /\ state.currentTool = "angle"
  /\ dispatch("angle.move",
              IF currentElement # <<>>
                THEN << [type |-> "ADD_ELEMENT", element |-> currentElement[1]] >>
                ELSE <<>>)
  /\ UNCHANGED <<currentElement, isDrawing, isDragging, dragStart, pendingImport, now>>
  /\ UNCHANGED toolLocal
  /\ UNCHANGED canvasLocal

AngleMouseMove(point) ==
  /\ state.currentTool = "angle"
  /\ dispatch("angle.move", <<>>)
  /\ LET clippedPoint == clipToPageBounds(state, point)
     IN CASE currentElement # <<>> /\ clickCount = 1 ->
               currentElement' =
                 << [currentElement[1] EXCEPT !.points = <<currentElement[1].points[1], clippedPoint>>] >>
          [] currentElement # <<>> /\ clickCount = 2 /\ isDrawing ->
               currentElement' =
                 << [currentElement[1] EXCEPT
                       !.points = <<currentElement[1].points[1], currentElement[1].points[2],
                                    clippedPoint>>] >>
          [] OTHER -> UNCHANGED currentElement
  /\ UNCHANGED <<isDrawing, isDragging, dragStart, pendingImport, now>>
  /\ UNCHANGED toolLocal
  /\ UNCHANGED canvasLocal

----------------------------------------------------------------------------
(* FreehandTool *)

FreehandMouseDown(point) ==
  /\ state.currentTool = "freehand"
  /\ now <= MaxNow
  /\ dispatch(DownEvent("freehand.down", point), <<>>)
  /\ IF getPageAtPoint(state, point) = 0
       THEN UNCHANGED <<currentElement, isDrawing, now>>
       ELSE /\ currentElement' = << [id |-> <<"freehand", now>>, type |-> "freehand",
                                     points |-> << clipToPageBounds(state, point) >>,
                                     layerId |-> state.currentLayerId,
                                     text |-> "", fontSize |-> 0] >>
            /\ isDrawing' = TRUE
            /\ now' = now + 1
  /\ UNCHANGED <<isDragging, dragStart, pendingImport>>
  /\ UNCHANGED toolLocal
  /\ UNCHANGED canvasLocal

(* distance > 2, compared squared *)
FarEnough(p, q) == (p.x - q.x) * (p.x - q.x) + (p.y - q.y) * (p.y - q.y) > 2 * 2

FreehandMouseMove(point) ==
  /\ state.currentTool = "freehand"
  /\ currentElement # <<>> => Len(currentElement[1].points) < MaxPoints
  /\ dispatch("freehand.move", <<>>)
  /\ IF ~isDrawing \/ currentElement = <<>>
       THEN UNCHANGED currentElement
       ELSE LET clippedPoint == clipToPageBounds(state, point)
                points == currentElement[1].points
                lastPoint == points[Len(points)]
            IN IF FarEnough(clippedPoint, lastPoint)
                 THEN currentElement' =
                        << [currentElement[1] EXCEPT !.points = Append(points, clippedPoint)] >>
                 ELSE UNCHANGED currentElement
  /\ UNCHANGED <<isDrawing, isDragging, dragStart, pendingImport, now>>
  /\ UNCHANGED toolLocal
  /\ UNCHANGED canvasLocal

FreehandMouseUp ==
  /\ state.currentTool = "freehand"
  /\ IF isDrawing /\ currentElement # <<>> /\ Len(currentElement[1].points) > 1
       THEN /\ dispatch("freehand.up", << [type |-> "ADD_ELEMENT", element |-> currentElement[1]] >>)
            /\ currentElement' = <<>>
            /\ isDrawing' = FALSE
       ELSE /\ dispatch("freehand.up", <<>>)
            /\ UNCHANGED <<currentElement, isDrawing>>
  /\ UNCHANGED <<isDragging, dragStart, pendingImport, now>>
  /\ UNCHANGED toolLocal
  /\ UNCHANGED canvasLocal

----------------------------------------------------------------------------
(* TextTool.  inputPosition is a screen point; canvasRect is the canvas's  *)
(* bounding rectangle.                                                     *)

canvasRect == [left |-> 0, top |-> 0]

ToScreen(s, p) ==
  Pt(canvasRect.left + ((p.x + s.panOffset.x) * s.zoom) \div ZoomUnit,
     canvasRect.top + ((p.y + s.panOffset.y) * s.zoom) \div ZoomUnit)

ToCanvas(s, q) ==
  Pt(((q.x - canvasRect.left) * ZoomUnit) \div s.zoom - s.panOffset.x,
     ((q.y - canvasRect.top) * ZoomUnit) \div s.zoom - s.panOffset.y)

(* String.prototype.trim on the texts typed here *)
Trim(text) == IF text = " " THEN "" ELSE text

(* What the handleTextSubmit of the current render has captured; mounted *)
(* tells whether the TextTool that made it is still the mounted one.     *)
TextRender ==
  [textInput |-> textInput, inputPosition |-> inputPosition,
   zoom |-> state.zoom, panOffset |-> state.panOffset,
   currentLayerId |-> state.currentLayerId, textFontSize |-> state.textFontSize,
   mounted |-> TRUE]

(* The input is mounted with autoFocus; the listener calls preventDefault, *)
(* so a pointer-down on the canvas moves no focus.                         *)
TextMouseDown(point) ==
  /\ state.currentTool = "text"
  /\ dispatch(DownEvent("text.down", point), <<>>)
  /\ IF getPageAtPoint(state, point) = 0
       THEN UNCHANGED <<inputPosition, showInput, textInput, inputFocused>>
       ELSE /\ inputPosition' = << ToScreen(state, clipToPageBounds(state, point)) >>
            /\ showInput' = TRUE
            /\ textInput' = ""
            /\ inputFocused' = IF showInput /\ inputPosition # <<>> THEN inputFocused ELSE TRUE
  /\ UNCHANGED <<isDrawing, currentElement, isDragging, dragStart, clickCount, blurTimers,
                 pendingImport, now>>
  /\ UNCHANGED canvasLocal

(* onChange of the text input, which is rendered while showInput && inputPosition *)
TextChange(text) ==
  /\ state.currentTool = "text"
  /\ showInput /\ inputPosition # <<>> /\ inputFocused
  /\ textInput' = text
  /\ dispatch("text.change", <<>>)
  /\ UNCHANGED <<isDrawing, currentElement, isDragging, dragStart, clickCount, inputPosition,
                 showInput, inputFocused, blurTimers, pendingImport, now>>
  /\ UNCHANGED canvasLocal

(* handleTextSubmit as made by the render c, called by event; timers are *)
(* the focus-loss timers left pending.  The setters of an unmounted      *)
(* TextTool change nothing.                                              *)
textSubmit(c, event, timers) ==
  /\ IF Trim(c.textInput) # "" /\ c.inputPosition # <<>>
       THEN /\ now <= MaxNow
            /\ dispatch(event,
                        << [type |-> "ADD_ELEMENT",
                            element |-> [id |-> <<"text", now>>, type |-> "text",
                                         points |-> << ToCanvas(c, c.inputPosition[1]) >>,
                                         layerId |-> c.currentLayerId,
                                         text |-> Trim(c.textInput),
                                         fontSize |-> c.textFontSize]] >>)
            /\ now' = now + 1
       ELSE /\ dispatch(event, <<>>)
            /\ UNCHANGED now
  /\ IF c.mounted
       THEN /\ showInput' = FALSE
            /\ textInput' = ""
            /\ inputPosition' = <<>>
            /\ inputFocused' = FALSE
       ELSE UNCHANGED <<showInput, textInput, inputPosition, inputFocused>>
  /\ blurTimers' = timers
  /\ UNCHANGED <<isDrawing, currentElement, isDragging, dragStart, clickCount, pendingImport>>
  /\ UNCHANGED canvasLocal

handleTextSubmit == textSubmit(TextRender, "text.submit", blurTimers)

TextKeyDown(key) ==
  /\ state.currentTool = "text"
  /\ showInput /\ inputPosition # <<>> /\ inputFocused
  /\ IF key = "Enter"
       THEN handleTextSubmit
       ELSE /\ key = "Escape"
            /\ dispatch("text.escape", <<>>)
            /\ showInput' = FALSE
            /\ textInput' = ""
            /\ inputPosition' = <<>>
            /\ inputFocused' = FALSE
            /\ UNCHANGED <<isDrawing, currentElement, isDragging, dragStart, clickCount,
                           blurTimers, pendingImport, now>>
  /\ UNCHANGED canvasLocal

(* onBlur of the text input: handleTextSubmit of this render is called   *)
(* 100 ms later.                                                         *)
handleBlur ==
  /\ state.currentTool = "text"
  /\ showInput /\ inputPosition # <<>> /\ inputFocused
  /\ Len(blurTimers) < MaxTimers
  /\ blurTimers' = Append(blurTimers, TextRender)
  /\ inputFocused' = FALSE
  /\ dispatch("text.blur", <<>>)
  /\ UNCHANGED <<isDrawing, currentElement, isDragging, dragStart, clickCount, textInput,
                 inputPosition, showInput, pendingImport, now>>
  /\ UNCHANGED canvasLocal

(* The user clicks into the text input again *)
TextFocus ==
  /\ state.currentTool = "text"
  /\ showInput /\ inputPosition # <<>> /\ ~inputFocused
  /\ inputFocused' = TRUE
  /\ dispatch("text.focus", <<>>)
  /\ UNCHANGED <<isDrawing, currentElement, isDragging, dragStart, clickCount, textInput,
                 inputPosition, showInput, blurTimers, pendingImport, now>>
  /\ UNCHANGED canvasLocal

(* The timer of a focus loss fires *)
blurTimeout(i) ==
  /\ i \in DOMAIN blurTimers
  /\ textSubmit(blurTimers[i], "text.timeout",
                SubSeq(blurTimers, 1, i - 1) \o SubSeq(blurTimers, i + 1, Len(blurTimers)))

----------------------------------------------------------------------------
(* Serialization (utils/serialization.ts).                                 *)
(* JavaScript values carry their typeof tag in k; a number is an integer   *)
(* or the non-finite value a literal such as 1e999 parses to.              *)

Undefined == [k |-> "undefined"]
Null == [k |-> "null"]
Bool(b) == [k |-> "boolean", b |-> b]
Num(n) == [k |-> "number", n |-> n]
Infinite == [k |-> "number", inf |-> TRUE]
Str(s) == [k |-> "string", s |-> s]
Arr(items) == [k |-> "array", items |-> items]
Obj(props) == [k |-> "object", props |-> props]

(* JSON text, as the tree of its grammar; JInvalid is text that is not   *)
(* JSON, JHuge a number literal beyond the range of a double.            *)
JInvalid == [j |-> "invalid"]
JNull == [j |-> "null"]
JBool(b) == [j |-> "boolean", b |-> b]
JNum(n) == [j |-> "number", n |-> n]
JHuge == [j |-> "number", huge |-> TRUE]
JStr(s) == [j |-> "string", s |-> s]
JArr(items) == [j |-> "array", items |-> items]
JObj(props) == [j |-> "object", props |-> props]

RECURSIVE JSONparse(_)
JSONparse(text) ==
  CASE text.j = "null" -> Null
    [] text.j = "boolean" -> Bool(text.b)
    [] text.j = "number" -> IF "huge" \in DOMAIN text THEN Infinite ELSE Num(text.n)
    [] text.j = "string" -> Str(text.s)
    [] text.j = "array" -> Arr([i \in DOMAIN text.items |-> JSONparse(text.items[i])])
    [] text.j = "object" -> Obj([key \in DOMAIN text.props |-> JSONparse(text.props[key])])

(* JSON.stringify: a property whose value is undefined is left out, an   *)
(* undefined array entry and a non-finite number are written as null.    *)
RECURSIVE JSONstringify(_)
JSONstringify(value) ==
  CASE value.k \in {"null", "undefined"} -> JNull
    [] value.k = "boolean" -> JBool(value.b)
    [] value.k = "number" -> IF "inf" \in DOMAIN value THEN JNull ELSE JNum(value.n)
    [] value.k = "string" -> JStr(value.s)
    [] value.k = "array" -> JArr([i \in DOMAIN value.items |-> JSONstringify(value.items[i])])
    [] value.k = "object" ->
         JObj([key \in {name \in DOMAIN value.props : value.props[name].k # "undefined"}
                 |-> JSONstringify(value.props[key])])

typeof(value) ==
  IF value.k \in {"null", "array", "object"} THEN "object" ELSE value.k

(* value[key]; only called on values that are not null or undefined *)
Get(value, key) ==
  IF value.k = "object" /\ key \in DOMAIN value.props THEN value.props[key] ELSE Undefined

Falsy(value) ==
  \/ value.k \in {"undefined", "null"}
  \/ value.k = "boolean" /\ ~value.b
  \/ value.k = "number" /\ "n" \in DOMAIN value /\ value.n = 0
  \/ value.k = "string" /\ value.s = ""

ElementTypes == {"line", "angle", "freehand", "text"}

(* Mutant: the entry's style is not looked at. *)
EntryAccepted_NoStyleCheck(el) ==
  /\ ~(typeof(el) # "object" \/ el = Null)
  /\ ~(typeof(Get(el, "id")) # "string")
  /\ Get(el, "type").k = "string" /\ Get(el, "type").s \in ElementTypes
  /\ Get(el, "points").k = "array"
  /\ \A pIdx \in DOMAIN Get(el, "points").items :
        LET p == Get(el, "points").items[pIdx]
        IN ~(\/ typeof(p) # "object"
             \/ p = Null
             \/ typeof(Get(p, "x")) # "number"
             \/ typeof(Get(p, "y")) # "number")
  /\ ~(typeof(Get(el, "layerId")) # "string")

(* The checks of deserializeDrawing on one entry, in their order: TRUE   *)
(* when none of them throws.                                             *)
EntryAccepted(el) ==
  /\ ~(typeof(el) # "object" \/ el = Null)
  /\ ~(typeof(Get(el, "id")) # "string")
  /\ Get(el, "type").k = "string" /\ Get(el, "type").s \in ElementTypes
  /\ Get(el, "points").k = "array"
  /\ \A pIdx \in DOMAIN Get(el, "points").items :
        LET p == Get(el, "points").items[pIdx]
        IN ~(\/ typeof(p) # "object"
             \/ p = Null
             \/ typeof(Get(p, "x")) # "number"
             \/ typeof(Get(p, "y")) # "number")
  /\ ~(\/ Falsy(Get(el, "style"))
       \/ typeof(Get(Get(el, "style"), "strokeColor")) # "string"
       \/ typeof(Get(Get(el, "style"), "strokeWidth")) # "number")
  /\ ~(typeof(Get(el, "layerId")) # "string")

serializeDrawing(elements) == JSONstringify(Arr(elements))

(* ok = FALSE stands for the thrown error *)
deserializeDrawing(json) ==
  IF json = JInvalid THEN [ok |-> FALSE, value |-> <<>>]
  ELSE LET data == JSONparse(json)
       IN IF data.k # "array" THEN [ok |-> FALSE, value |-> <<>>]
          ELSE IF \E idx \in DOMAIN data.items : ~EntryAccepted(data.items[idx])
                 THEN [ok |-> FALSE, value |-> <<>>]
                 ELSE [ok |-> TRUE, value |-> data.items]

(* A DrawingElement object and the element record of this model.  The    *)
(* record leaves out style; a non-finite coordinate is held as Infinity. *)
NumberOf(value) == IF "inf" \in DOMAIN value THEN Infinity ELSE value.n

ElementOf(el) ==
  [id |-> Get(el, "id").s,
   type |-> Get(el, "type").s,
   points |-> [i \in DOMAIN Get(el, "points").items |->
                 Pt(NumberOf(Get(Get(el, "points").items[i], "x")),
                    NumberOf(Get(Get(el, "points").items[i], "y")))],
   layerId |-> Get(el, "layerId").s,
   text |-> IF Get(el, "text").k = "string" THEN Get(el, "text").s ELSE "",
   fontSize |-> IF Get(el, "fontSize").k = "number" THEN NumberOf(Get(el, "fontSize")) ELSE 0]

ElementsOf(values) == [i \in DOMAIN values |-> ElementOf(values[i])]

NumberValue(n) == IF n = Infinity THEN Infinite ELSE Num(n)

DrawingElement(element) ==
  LET points == Arr([i \in DOMAIN element.points |->
                       Obj([x |-> NumberValue(element.points[i].x),
                            y |-> NumberValue(element.points[i].y)])])
      style == Obj([strokeColor |-> Str("#ffffff"), strokeWidth |-> Num(LineStrokeWidth)])
  IN IF element.type = "text"
       THEN Obj([id |-> Str(element.id), type |-> Str(element.type), points |-> points,
                 style |-> style, layerId |-> Str(element.layerId),
                 text |-> Str(element.text), fontSize |-> Num(element.fontSize)])
       ELSE Obj([id |-> Str(element.id), type |-> Str(element.type), points |-> points,
                 style |-> style, layerId |-> Str(element.layerId)])

DrawingElements(elements) == [i \in DOMAIN elements |-> DrawingElement(elements[i])]

----------------------------------------------------------------------------
(* File import (NavFileControls / ImportExportControls handleFileChange).  *)
(* The handler is suspended at `await file.text()`; its continuation uses  *)
(* the state.layers and state.currentLayerId of the render in which the    *)
(* file was chosen.  A file is named by the entries of its JSON text;      *)
(* fileText is what file.text() resolves to.                               *)

FileElement(n, layerId, p, q) ==
  [id |-> <<"file", n>>, type |-> "line", points |-> <<p, q>>, layerId |-> layerId,
   text |-> "", fontSize |-> 0]

UnknownLayerId == <<"layer", "fixed", 9>>

(* A file whose root is an object *)
MalformedFile == <<"#object">>
OrphanFile == <<"orphan">>
LayeredFile == <<"layered">>
TwinFile == <<"twins">>

OrphanText ==
  serializeDrawing(DrawingElements(<< FileElement(1, UnknownLayerId, PA, Pt(100, 60)) >>))

LayeredText ==
  serializeDrawing(DrawingElements(<< FileElement(1, LayerId(2), PA, PB),
                                      FileElement(2, LayerId(3), PB, Pt(100, 100)),
                                      FileElement(3, LayerId(2), PB, PB) >>))

(* Two lines with the same id *)
TwinText ==
  serializeDrawing(DrawingElements(<< FileElement(1, LayerId(1), PA, Pt(100, 60)),
                                      FileElement(1, LayerId(1), PB, Pt(100, 100)) >>))

(* One entry of a file's array, by name: a line or a text that passes    *)
(* every check, and the same line with one thing wrong.                  *)
GoodLine ==
  [id |-> JStr(<<"file", 1>>), type |-> JStr("line"),
   points |-> JArr(<< JObj([x |-> JNum(60), y |-> JNum(60)]),
                      JObj([x |-> JNum(100), y |-> JNum(60)]) >>),
   style |-> JObj([strokeColor |-> JStr("#ffffff"), strokeWidth |-> JNum(2)]),
   layerId |-> JStr(LayerId(1))]

Without(props, name) == [key \in DOMAIN props \ {name} |-> props[key]]

entryText(name) ==
  CASE name = "line" -> JObj(GoodLine)
    [] name = "text" ->
         JObj([id |-> JStr(<<"file", 2>>), type |-> JStr("text"),
               points |-> JArr(<< JObj([x |-> JNum(60), y |-> JNum(100)]) >>),
               style |-> JObj([strokeColor |-> JStr("#ffffff"), strokeWidth |-> JNum(1),
                               fillColor |-> JStr("#000000")]),
               layerId |-> JStr(LayerId(2)), text |-> JStr("hi"), fontSize |-> JNum(14),
               selected |-> JBool(FALSE)])
    [] name = "huge" ->
         JObj([GoodLine EXCEPT !.points =
                 JArr(<< JObj([x |-> JHuge, y |-> JNum(60)]),
                         JObj([x |-> JNum(100), y |-> JNum(60)]) >>)])
    [] name = "noPoints" -> JObj([GoodLine EXCEPT !.points = JArr(<<>>)])
    [] name = "null" -> JNull
    [] name = "number" -> JNum(7)
    [] name = "string" -> JStr("line")
    [] name = "array" -> JArr(<<>>)
    [] name = "id.missing" -> JObj(Without(GoodLine, "id"))
    [] name = "id.number" -> JObj([GoodLine EXCEPT !.id = JNum(1)])
    [] name = "type.missing" -> JObj(Without(GoodLine, "type"))
    [] name = "type.arc" -> JObj([GoodLine EXCEPT !.type = JStr("arc")])
    [] name = "type.number" -> JObj([GoodLine EXCEPT !.type = JNum(1)])
    [] name = "points.missing" -> JObj(Without(GoodLine, "points"))
    [] name = "points.object" ->
         JObj([GoodLine EXCEPT !.points = JObj([x |-> JNum(60), y |-> JNum(60)])])
    [] name = "point.null" -> JObj([GoodLine EXCEPT !.points = JArr(<< JNull >>)])
    [] name = "point.number" -> JObj([GoodLine EXCEPT !.points = JArr(<< JNum(60) >>)])
    [] name = "point.noY" ->
         JObj([GoodLine EXCEPT !.points = JArr(<< JObj([x |-> JNum(60)]) >>)])
    [] name = "point.xString" ->
         JObj([GoodLine EXCEPT !.points =
                 JArr(<< JObj([x |-> JNum(60), y |-> JNum(60)]),
                         JObj([x |-> JStr("100"), y |-> JNum(60)]) >>)])
    [] name = "point.xNull" ->
         JObj([GoodLine EXCEPT !.points = JArr(<< JObj([x |-> JNull, y |-> JNum(60)]) >>)])
    [] name = "style.missing" -> JObj(Without(GoodLine, "style"))
    [] name = "style.null" -> JObj([GoodLine EXCEPT !.style = JNull])
    [] name = "style.string" -> JObj([GoodLine EXCEPT !.style = JStr("solid")])
    [] name = "style.noColor" ->
         JObj([GoodLine EXCEPT !.style = JObj([strokeWidth |-> JNum(2)])])
    [] name = "style.colorNumber" ->
         JObj([GoodLine EXCEPT !.style = JObj([strokeColor |-> JNum(0), strokeWidth |-> JNum(2)])])
    [] name = "style.widthString" ->
         JObj([GoodLine EXCEPT !.style =
                 JObj([strokeColor |-> JStr("#ffffff"), strokeWidth |-> JStr("2")])])
    [] name = "layerId.missing" -> JObj(Without(GoodLine, "layerId"))
    [] name = "layerId.number" -> JObj([GoodLine EXCEPT !.layerId = JNum(1)])

fileText(file) ==
  CASE file = OrphanFile -> OrphanText
    [] file = LayeredFile -> LayeredText
    [] file = TwinFile -> TwinText
    [] file = <<"#object">> -> JObj([elements |-> JArr(<<>>)])
    [] file = <<"#null">> -> JNull
    [] file = <<"#number">> -> JNum(0)
    [] file = <<"#string">> -> JStr("[]")
    [] file = <<"#invalid">> -> JInvalid
    [] OTHER -> JArr([i \in DOMAIN file |-> entryText(file[i])])

Normalize(elements, validLayerIds, fallback) ==
  [i \in DOMAIN elements |->
     [elements[i] EXCEPT !.layerId = IF elements[i].layerId \in validLayerIds
                                       THEN elements[i].layerId ELSE fallback]]

handleFileChange(file) ==
  /\ Len(pendingImport) < MaxPendingImports
  /\ pendingImport' = Append(pendingImport,
                             [validLayerIds |-> LayerIdsOf(state),
                              fallback |-> state.currentLayerId,
                              file |-> file])
  /\ dispatch("import.start", <<>>)
  /\ UNCHANGED <<isDrawing, currentElement, isDragging, dragStart, now>>
  /\ UNCHANGED toolLocal
  /\ UNCHANGED canvasLocal

(* handleSaveJson / handleDownloadJSON: the text handed to downloadBlob *)
handleSaveJson == serializeDrawing(DrawingElements(state.elements))

(* Mutant: a file that fails to deserialize empties the document. *)
fileTextResolved_ReplacesOnError(i) ==
  /\ i \in DOMAIN pendingImport
  /\ LET c == pendingImport[i]
         parsed == deserializeDrawing(fileText(c.file))
     IN dispatch("import.done",
                 << [type |-> "REPLACE_ELEMENTS",
                     elements |-> IF parsed.ok
                                    THEN Normalize(ElementsOf(parsed.value), c.validLayerIds, c.fallback)
                                    ELSE <<>>] >>)
  /\ pendingImport' = SubSeq(pendingImport, 1, i - 1) \o SubSeq(pendingImport, i + 1, Len(pendingImport))
  /\ UNCHANGED <<isDrawing, currentElement, isDragging, dragStart, now>>
  /\ UNCHANGED toolLocal
  /\ UNCHANGED canvasLocal

fileTextResolved(i) ==
  /\ i \in DOMAIN pendingImport
  /\ LET c == pendingImport[i]
         parsed == deserializeDrawing(fileText(c.file))
     IN IF parsed.ok
          THEN dispatch("import.done",
                        << [type |-> "REPLACE_ELEMENTS",
                            elements |-> Normalize(ElementsOf(parsed.value),
                                                   c.validLayerIds, c.fallback)] >>)
          ELSE dispatch("import.done", <<>>)
  /\ pendingImport' = SubSeq(pendingImport, 1, i - 1) \o SubSeq(pendingImport, i + 1, Len(pendingImport))
  /\ UNCHANGED <<isDrawing, currentElement, isDragging, dragStart, now>>
  /\ UNCHANGED toolLocal
  /\ UNCHANGED canvasLocal

----------------------------------------------------------------------------
(* The state machine *)

(* The container of the canvas when the application is mounted *)
initialViewport == [width |-> 1200, height |-> 800]

(* The state after construction: initialState and the effects of the     *)
(* first renders.                                                        *)
Init ==
  /\ state = Settle(initialState, initialViewport, MaxPasses)
  /\ isDrawing = FALSE
  /\ currentElement = <<>>
  /\ isDragging = FALSE
  /\ dragStart = <<>>
  /\ clickCount = 0
  /\ textInput = ""
  /\ inputPosition = <<>>
  /\ showInput = FALSE
  /\ inputFocused = FALSE
  /\ blurTimers = <<>>
  /\ viewport = initialViewport
  /\ isPanning = FALSE
  /\ lastPanPoint = <<>>
  /\ pendingImport = <<>>
  /\ now = 1
  /\ obs = obsInit

(* Spec: the document and its history, driven by the line tool (a click   *)
(* without a move in between), the select tool, the layer panel's delete  *)
(* button and the file import.                                            *)

ToolSelect == \E tool \in {"select", "line"} : handleToolSelect(tool)
Undo == handleUndo
Redo == handleRedo
DeleteLayer == handleDeleteLayer
LineDown == LineMouseDown(PA)
LineUp == LineMouseUp
SelectDown == \E point \in {PA, POut} : SelectMouseDown(point)
SelectMove == SelectMouseMove(PB)
SelectUp == SelectMouseUp
SelectDelete == SelectKeyDown
ImportStart == handleFileChange(OrphanFile)
ImportDone == \E i \in DOMAIN pendingImport : fileTextResolved(i)

Next ==
  \/ ToolSelect \/ Undo \/ Redo \/ DeleteLayer
  \/ LineDown \/ LineUp
  \/ SelectDown \/ SelectMove \/ SelectUp \/ SelectDelete
  \/ ImportStart \/ ImportDone

Spec == Init /\ [][Next]_vars

(* SpecErase: the line tool and the eraser, with undo / redo and the      *)
(* layer panel's delete and visibility buttons.                           *)

ToggleVisibility == \E layerId \in LayerIdsOf(state) : toggleLayerVisibility(layerId)

LineMove == LineMouseMove(PB)
EraseToolSelect == \E tool \in {"line", "eraser"} : handleToolSelect(tool)
EraserDown == \E point \in {PA, PB, POut} : EraserMouseDown(point)
EraserMove == \E point \in {PA, PB, POut} : EraserMouseMove(point)
EraserUp == EraserMouseUp

NextErase ==
  \/ EraseToolSelect \/ Undo \/ Redo \/ DeleteLayer \/ ToggleVisibility
  \/ LineDown \/ LineMove \/ LineUp
  \/ EraserDown \/ EraserMove \/ EraserUp

SpecErase == Init /\ [][NextErase]_vars

(* SpecLayers: the layer panel, with the import of a file whose elements  *)
(* lie on several layers and of a file that fails to parse.              *)

AddLayer == handleAddLayer
ToggleLock == \E layerId \in LayerIdsOf(state) : toggleLayerLock(layerId)
SetCurrentLayer == \E layerId \in LayerIdsOf(state) : setCurrentLayer(layerId)
LayersImportStart == \E file \in {LayeredFile, MalformedFile} : handleFileChange(file)

NextLayers ==
  \/ AddLayer \/ DeleteLayer \/ ToggleLock \/ SetCurrentLayer
  \/ LayersImportStart \/ ImportDone

SpecLayers == Init /\ [][NextLayers]_vars

(* SpecSerial: files uploaded into an empty drawing.  A file is not JSON, *)
(* has a root that is not an array, or is an array of up to two entries. *)

EntryNames ==
  {"line", "text", "huge", "noPoints", "null", "number", "string", "array",
   "id.missing", "id.number", "type.missing", "type.arc", "type.number",
   "points.missing", "points.object", "point.null", "point.number", "point.noY",
   "point.xString", "point.xNull", "style.missing", "style.null", "style.string",
   "style.noColor", "style.colorNumber", "style.widthString",
   "layerId.missing", "layerId.number"}

Docs ==
  {<<"#object">>, <<"#null">>, <<"#number">>, <<"#string">>, <<"#invalid">>, <<>>}
    \cup {<<a>> : a \in EntryNames}
    \cup {<<a, b>> : a \in {"line", "huge"}, b \in EntryNames}
    \cup {<<a, "text">> : a \in EntryNames}

SerialUpload == state.elements = <<>> /\ \E file \in Docs : handleFileChange(file)

NextSerial == SerialUpload \/ ImportDone

SpecSerial == Init /\ [][NextSerial]_vars

(* SpecDraw: the four creating tools driven by pointer events on and off  *)
(* the page, with tool switches at any moment.                            *)

DrawPoints == {PA, PB, POut}

DrawToolSelect == \E tool \in {"line", "angle", "freehand", "text"} : handleToolSelect(tool)
DrawLineDown == \E point \in DrawPoints : LineMouseDown(point)
DrawLineMove == \E point \in DrawPoints : LineMouseMove(point)
AngleDown == \E point \in DrawPoints : AngleMouseDown(point)
AngleMove == \E point \in DrawPoints : AngleMouseMove(point)
FreehandDown == \E point \in DrawPoints : FreehandMouseDown(point)
FreehandMove == \E point \in DrawPoints : FreehandMouseMove(point)
FreehandUp == FreehandMouseUp
TextDown == \E point \in DrawPoints : TextMouseDown(point)
TextType == \E text \in {" ", "hi"} : TextChange(text)
TextKey == \E key \in {"Enter", "Escape"} : TextKeyDown(key)

NextDraw ==
  \/ DrawToolSelect
  \/ DrawLineDown \/ DrawLineMove \/ LineUp
  \/ AngleDown \/ AngleMove
  \/ FreehandDown \/ FreehandMove \/ FreehandUp
  \/ TextDown \/ TextType \/ TextKey

SpecDraw == Init /\ [][NextDraw]_vars

(* SpecText: one text entry at a time, opened by a click on PA: typing,  *)
(* Enter and Escape, losing and regaining the focus, the focus-loss      *)
(* timer, scrolling the canvas with the wheel and switching the tool.    *)

TextToolSelect == \E tool \in {"text", "select"} : handleToolSelect(tool)
TextOpen == state.elements = <<>> /\ blurTimers = <<>> /\ TextMouseDown(PA)
TextBlur == handleBlur
TextRefocus == TextFocus
TextTimeout == \E i \in DOMAIN blurTimers : blurTimeout(i)
TextScroll == \E deltaY \in {0 - 100, 100} : handleWheel(FALSE, deltaY)

NextText ==
  \/ TextToolSelect \/ TextOpen \/ TextType \/ TextKey
  \/ TextBlur \/ TextRefocus \/ TextTimeout \/ TextScroll

SpecText == Init /\ [][NextText]_vars

(* SpecLine: the line tool with moves between pointer-down and          *)
(* pointer-up, undo and redo, over an empty drawing or an imported line, *)
(* with the layer panel's delete button.                                 *)

LineImportStart == state.elements = <<>> /\ handleFileChange(<<"line">>)
LinePoints == {PB, Pt(160, 60), POut}
LineMoveTo == \E point \in LinePoints : LineMouseMove(point)

NextLine ==
  \/ ToolSelect \/ LineDown \/ LineMoveTo \/ LineUp
  \/ Undo \/ Redo \/ DeleteLayer
  \/ LineImportStart \/ ImportDone

SpecLine == Init /\ [][NextLine]_vars

(* SpecSelect: the select tool over an imported drawing: lines that     *)
(* cross in PB on two layers, a line and a text, two lines with one id;  *)
(* pointer-down on and off the elements, drags of several moves, and the *)
(* lock of one layer and the visibility of another.                      *)

SelectFiles == {LayeredFile, TwinFile, <<"line", "text">>}
SelectImportStart ==
  state.elements = <<>> /\ \E file \in SelectFiles : handleFileChange(file)
SelectPointerDown == \E point \in DrawPoints : SelectMouseDown(point)
SelectDrag == \E point \in {PB, Pt(70, 110)} : SelectMouseMove(point)
SelectToggleLock == toggleLayerLock(LayerId(2))
SelectToggleVisible == toggleLayerVisibility(LayerId(3))

NextSelect ==
  \/ SelectImportStart \/ ImportDone
  \/ SelectPointerDown \/ SelectDrag \/ SelectUp
  \/ SelectToggleLock \/ SelectToggleVisible

SpecSelect == Init /\ [][NextSelect]_vars

(* SpecPages: the pages panel with the line tool drawing on page 1 and    *)
(* on page 2. The panel renders one button pair per page 1..totalPages.   *)

SelectPage == \E page \in 1..state.totalPages : handleSelect(page)
DeletePage == \E page \in 1..state.totalPages : handleDelete(page)
AddPage == handleAdd
PagesLineDown == \E point \in {PA, P2} : LineMouseDown(point)

NextPages ==
  \/ SelectPage \/ DeletePage \/ AddPage
  \/ ToolSelect \/ PagesLineDown \/ LineUp

SpecPages == Init /\ [][NextPages]_vars

(* SpecView: zoom, pan and the size of the container, with pages added   *)
(* and deleted.                                                           *)

Viewports == { initialViewport, [width |-> 600, height |-> 2600] }

(* Client points of the pan gesture.  A gesture is followed from the     *)
(* top-left position of the content, from PanFrom to PanTo in one move.  *)
PanFrom == Pt(300, 300)
PanTo == Pt(0, 0)

(* The zoom values from which a zoom button or a wheel zoom is followed: *)
(* the ends of the zoom range.                                           *)
ZoomStops == {state.minZoom, MaxZoom}

ZoomSlider == \E percent \in {10, 300} : handleZoomChange((percent * ZoomUnit) \div 100)
ZoomOut == state.zoom \in ZoomStops /\ handleZoomChange((state.zoom * 10) \div 12)
ZoomIn == state.zoom \in ZoomStops /\ handleZoomChange((state.zoom * 12) \div 10)
ZoomReset == handleZoomChange(ZoomUnit)
WheelZoom == state.zoom \in ZoomStops /\ \E deltaY \in {0 - 100, 100} : handleWheel(TRUE, deltaY)
WheelPan == \E deltaY \in {0 - 9000, 9000} : handleWheel(FALSE, deltaY)
PanDown ==
  /\ state.panOffset = clampPan(state, viewport, Pt(0, 0))
  /\ handleMouseDown(PanFrom)
PanMove == lastPanPoint # <<PanTo>> /\ handleMouseMove(PanTo)
PanUp == handleMouseUp
Resize == \E rect \in Viewports : windowResize(rect)
ViewAddPage == state.totalPages < MaxViewPages /\ handleAdd
ViewDeletePage == handleDelete(state.totalPages)

NextView ==
  \/ ZoomSlider \/ ZoomOut \/ ZoomIn \/ ZoomReset
  \/ WheelZoom \/ WheelPan \/ PanDown \/ PanMove \/ PanUp
  \/ Resize \/ ViewAddPage \/ ViewDeletePage

SpecView == Init /\ [][NextView]_vars

(* SpecKeys: the keyboard with the focus on the page or in the          *)
(* layer-name field: Delete / Backspace of the select tool and the undo  *)
(* and redo shortcuts, over lines drawn and selected.                    *)

KeyDelete == \E active \in {Body, LayerNameInput} : SelectKeyDownIn(active)
KeyShortcut ==
  \E active \in {Body, LayerNameInput}, key \in {"undo", "redo"} : onKeyDown(active, key)

NextKeys ==
  \/ ToolSelect \/ LineDown \/ LineUp
  \/ SelectDown \/ SelectUp
  \/ KeyDelete \/ KeyShortcut

SpecKeys == Init /\ [][NextKeys]_vars

(* SpecHistory: undo and redo of lines, with the tool, the layers, the   *)
(* pages, the zoom and the pan changing in between.                      *)

NextHistory ==
  \/ ToolSelect \/ LineDown \/ LineUp
  \/ Undo \/ Redo
  \/ DeleteLayer \/ ViewAddPage \/ ZoomIn \/ WheelPan

SpecHistory == Init /\ [][NextHistory]_vars

(* SpecLock: the layer panel's lock, current-layer and delete buttons     *)
(* with the line tool and the select tool.                                *)

NextLock ==
  \/ ToolSelect \/ ToggleLock \/ SetCurrentLayer \/ DeleteLayer
  \/ LineDown \/ LineUp
  \/ SelectDown \/ SelectMove \/ SelectUp \/ SelectDelete

SpecLock == Init /\ [][NextLock]_vars

----------------------------------------------------------------------------
(* Claims *)

CurrentSnapshot(s) == s.history[s.historyIndex + 1]

(* C1: in every reachable state 0 <= historyIndex < history.length. *)
C1_HistoryIndexInRange ==
  /\ 0 <= state.historyIndex
  /\ state.historyIndex < Len(state.history)

(* C1 witness: the cursor at 0 below a history of three snapshots (two     *)
(* significant actions, then two UNDOs).                                   *)
C1_Witness ==
  /\ state.historyIndex = 0
  /\ Len(state.history) = 3

(* C2: right after ADD_ELEMENT, DELETE_ELEMENTS, REPLACE_ELEMENTS,         *)
(* SAVE_STATE and each UNDO or REDO that is in range, the element list     *)
(* equals history[historyIndex].                                           *)
C2_ElementsEqualSnapshot ==
  obs.last \in Significant \cup {"UNDO", "REDO"} =>
     state.elements = CurrentSnapshot(state)

(* C2 witness: a SAVE_STATE that recorded a list differing from the        *)
(* snapshot below it that was not empty (a drag came before).              *)
C2_Witness ==
  /\ obs.last = "SAVE_STATE"
  /\ state.historyIndex >= 1
  /\ state.history[state.historyIndex] # <<>>
  /\ CurrentSnapshot(state) # state.history[state.historyIndex]

(* C3: after history-significant actions only, k UNDOs followed by k REDOs *)
(* (k at most the number of significant actions) restore the element list  *)
(* that was present before the first UNDO.                                 *)
C3_UndoRedoRoundTrip ==
  (obs.run.phase = "redo" /\ obs.run.j = obs.run.k) =>
     state.elements = obs.run.base

(* C3 witness: two UNDOs and two REDOs over a non-empty element list. *)
C3_Witness ==
  /\ obs.run.phase = "redo"
  /\ obs.run.k = 2
  /\ obs.run.j = 2
  /\ state.elements # <<>>

(* C4 as stated: after n significant actions, one UNDO and one new         *)
(* significant action, history.length = n and historyIndex = n - 1.        *)
C4_Original ==
  obs.run.phase = "trunc" =>
     /\ Len(state.history) = obs.run.n
     /\ state.historyIndex = obs.run.n - 1

(* C4 amended: after n >= 1 significant actions, one UNDO and one new      *)
(* significant action, history.length = n + 1 and historyIndex = n (the    *)
(* initial snapshot [] is entry 0 of the history).                         *)
C4_HistoryTruncation ==
  obs.run.phase = "trunc" =>
     /\ Len(state.history) = obs.run.n + 1
     /\ state.historyIndex = obs.run.n

(* C4 witness: n = 2, an UNDO, then a significant action. *)
C4_Witness ==
  /\ obs.run.phase = "trunc"
  /\ obs.run.n = 2
  /\ Len(state.history) = 3

(* C5: every history-significant action makes the new history the old one  *)
(* truncated to its first historyIndex + 1 entries followed by the new     *)
(* snapshot, and sets historyIndex to the last index; a REDO right after   *)
(* it changes nothing.                                                     *)
C5_LinearUndo ==
  [][obs'.last \in Significant =>
       /\ state'.history = Append(SubSeq(state.history, 1, state.historyIndex + 1), state'.elements)
       /\ state'.historyIndex = Len(state'.history) - 1
       /\ drawingReducer(state', [type |-> "REDO"]) = state']_vars

(* C5 witness: a significant action dispatched right after an UNDO. *)
C5_Witness ==
  /\ obs.last \in Significant
  /\ obs.run.phase = "trunc"
  /\ obs.run.n = 1

(* C6: after a complete eraser gesture that deleted at least one element,  *)
(* one UNDO restores the element list that was present before the          *)
(* pointer-down.                                                           *)
C6_EraserGestureSingleUndo ==
  (obs.g.kind = "eraser" /\ obs.g.phase = "undone" /\ obs.g.flag) =>
     state.elements = obs.g.before

(* C7: the select tool's pointer-up emits SAVE_STATE once if a move        *)
(* translated the selection, and otherwise leaves history and historyIndex *)
(* as they were at the pointer-down.                                       *)
C7_SelectSaveOnlyAfterDrag ==
  (obs.g.kind = "select" /\ obs.g.phase = "done") =>
     IF obs.g.flag
       THEN /\ state.history = Append(SubSeq(obs.g.hist, 1, obs.g.idx + 1), state.elements)
            /\ state.historyIndex = obs.g.idx + 1
       ELSE /\ state.history = obs.g.hist
            /\ state.historyIndex = obs.g.idx

(* C8: every element of the element list has the layerId of an existing   *)
(* layer, also after UNDO and REDO that follow a DELETE_LAYER.             *)
C8_LayerIdsExist ==
  \A i \in DOMAIN state.elements : state.elements[i].layerId \in LayerIdsOf(state)

(* C9: DELETE_LAYER with one layer left changes nothing; otherwise         *)
(* DELETE_LAYER(id) of an existing layer removes that layer, removes       *)
(* exactly the elements on it (the others keep order and content), moves   *)
(* currentLayerId to the first remaining layer if it pointed at the        *)
(* deleted one and leaves it alone if not.  Checked for every layer id of  *)
(* every reachable state.                                                  *)
C9_DeleteLayerEffect ==
  \A id \in LayerIdsOf(state) :
     LET t == drawingReducer(state, [type |-> "DELETE_LAYER", id |-> id])
         survivors == {i \in DOMAIN state.elements : state.elements[i].layerId # id}
         rank(i) == Cardinality({k \in survivors : k <= i})
         kept == {i \in DOMAIN state.layers : state.layers[i].id # id}
         layerRank(i) == Cardinality({k \in kept : k <= i})
     IN IF Len(state.layers) <= 1 THEN t = state
        ELSE /\ Len(t.layers) = Cardinality(kept)
             /\ \A i \in kept : t.layers[layerRank(i)] = state.layers[i]
             /\ Len(t.elements) = Cardinality(survivors)
             /\ \A i \in survivors : t.elements[rank(i)] = state.elements[i]
             /\ t.currentLayerId = IF state.currentLayerId = id
                                     THEN t.layers[1].id ELSE state.currentLayerId
             /\ t.history = state.history
             /\ t.historyIndex = state.historyIndex

(* C9 witness: the panel deleted layer-3 while it was current; two of the  *)
(* three imported elements remain and layer-1 became current.              *)
C9_Witness ==
  /\ obs.last = "DELETE_LAYER"
  /\ Len(state.layers) = 2
  /\ Len(state.elements) = 2
  /\ state.currentLayerId = LayerId(1)

(* C10: the layer list is never empty, and no DELETE_LAYER applied to a    *)
(* reachable state empties it.                                             *)
C10_AtLeastOneLayer ==
  /\ Len(state.layers) >= 1
  /\ \A id \in LayerIdsOf(state) :
        Len(drawingReducer(state, [type |-> "DELETE_LAYER", id |-> id]).layers) >= 1

(* C10 witness: a single layer is left after deletions. *)
C10_Witness ==
  /\ Len(state.layers) = 1
  /\ obs.last = "DELETE_LAYER"

(* layer.locked of the first layer with that id; FALSE when there is none *)
LayerLocked(s, layerId) ==
  /\ FindLayer(s, layerId) # <<>>
  /\ FindLayer(s, layerId)[1].locked

(* C11: an element committed by ADD_ELEMENT is never on a layer that is    *)
(* locked at the time of the ADD_ELEMENT, whatever layer-panel actions and *)
(* tool gestures came before.                                              *)
C11_NoCreationOnLockedLayer ==
  obs.last = "ADD_ELEMENT" =>
     ~LayerLocked(state, state.elements[Len(state.elements)].layerId)

(* C12: an element whose layer is locked is not selected by a select       *)
(* pointer-down, not translated by a select drag and not deleted by the    *)
(* eraser or the Delete key: every step that dispatches SELECT_ELEMENTS,   *)
(* UPDATE_ELEMENT or DELETE_ELEMENTS keeps each such element as it was and *)
(* a SELECT_ELEMENTS does not put it into the selection.                   *)
C12_LockedElementsUntouched ==
  [][obs'.last \in {"SELECT_ELEMENTS", "UPDATE_ELEMENT", "DELETE_ELEMENTS"} =>
       \A i \in DOMAIN state.elements :
          LayerLocked(state, state.elements[i].layerId) =>
             /\ Includes(state'.elements, state.elements[i])
             /\ obs'.last = "SELECT_ELEMENTS" =>
                   ~Includes(state'.selectedElementIds, state.elements[i].id)]_vars

(* The element appended by the ADD_ELEMENT the latest event dispatched *)
Committed == state.elements[Len(state.elements)]

(* C13: every element committed with ADD_ELEMENT has a points sequence     *)
(* matching its type: line 2 points, angle 3, freehand at least 2, text 1. *)
C13_PointsMatchType ==
  obs.last = "ADD_ELEMENT" =>
     CASE Committed.type = "line" -> Len(Committed.points) = 2
       [] Committed.type = "angle" -> Len(Committed.points) = 3
       [] Committed.type = "freehand" -> Len(Committed.points) >= 2
       [] Committed.type = "text" -> Len(Committed.points) = 1
       [] OTHER -> FALSE

(* C14: a tool switch away from the angle tool after click 1 or click 2    *)
(* leaves no in-progress element and leaves the canvas out of the drawing  *)
(* state.                                                                  *)
C14_ToolSwitchDiscardsAngleDraft ==
  [][(state.currentTool = "angle" /\ state'.currentTool # "angle" /\ clickCount \in {1, 2}) =>
       (currentElement' = <<>> /\ isDrawing' = FALSE)]_vars

(* C15: every point of a committed element lies inside the rectangle of    *)
(* the page that holds its first point, the clipped pointer-down point.    *)
C15_CommittedInsidePage ==
  obs.last = "ADD_ELEMENT" =>
     LET n == getPageAtPoint(state, Committed.points[1])
     IN /\ n # 0
        /\ \A k \in DOMAIN Committed.points :
              InBounds(Committed.points[k], getPageBounds(state, n))

NoPageEvents ==
  {"line.down.nopage", "angle.click1.nopage", "angle.click2.nopage", "angle.click3.nopage",
   "freehand.down.nopage", "text.down.nopage"}

(* C16: a pointer-down of the line, angle, freehand or text tool on a      *)
(* point of no page creates no draft, does not enter the drawing state,    *)
(* opens no text entry and dispatches no action.                           *)
C16_NoPageRefused ==
  [][obs'.ev \in NoPageEvents =>
       /\ state' = state
       /\ currentElement' = currentElement
       /\ isDrawing' = isDrawing
       /\ clickCount' = clickCount
       /\ showInput' = showInput
       /\ inputPosition' = inputPosition
       /\ textInput' = textInput
       /\ obs'.last = ""]_vars

(* C16 witness: the line tool was idle and a pointer-down fell on no page. *)
C16_Witness ==
  /\ obs.ev = "line.down.nopage"
  /\ currentElement = <<>>
  /\ isDrawing = FALSE
  /\ state.elements = <<>>

(* C17: after a freehand pointer-up the tool is idle: no draft and not     *)
(* stroking, whether the stroke was committed or not.                      *)
C17_FreehandUpIdle ==
  obs.ev = "freehand.up" => (currentElement = <<>> /\ isDrawing = FALSE)

DraftEvents ==
  {"line.down", "line.move", "angle.click1", "angle.click2", "angle.move",
   "freehand.down", "freehand.move", "text.down"}

CommitEvents == {"line.up", "angle.click3", "freehand.up", "text.submit"}

(* C18: pointer-down and pointer-move of the line, freehand and angle      *)
(* tools (angle clicks 1 and 2, all previews) and opening a text entry     *)
(* dispatch nothing and leave elements, history and historyIndex as they   *)
(* were; a commit event dispatches nothing or one ADD_ELEMENT.             *)
C18_DraftOutsideDocument ==
  [][/\ (obs'.ev \in DraftEvents =>
           /\ obs'.last = ""
           /\ state'.elements = state.elements
           /\ state'.history = state.history
           /\ state'.historyIndex = state.historyIndex)
      /\ (obs'.ev \in CommitEvents =>
           \/ obs'.last = "" /\ state' = state
           \/ /\ obs'.last = "ADD_ELEMENT"
              /\ Len(state'.elements) = Len(state.elements) + 1
              /\ state'.historyIndex = state.historyIndex + 1)]_vars

(* C18 witness: an angle preview with three draft points over an empty     *)
(* document.                                                               *)
C18_Witness ==
  /\ obs.ev = "angle.move"
  /\ currentElement # <<>>
  /\ Len(currentElement[1].points) = 3
  /\ state.elements = <<>>
  /\ state.historyIndex = 0

(* Page arguments an action may carry: every page of the document and    *)
(* numbers below 1 and above totalPages.                                  *)
PageArgs == (0 - 1)..(MaxPages + 2)

PagesOK(s) ==
  /\ s.totalPages >= 1
  /\ 1 <= s.currentPage
  /\ s.currentPage <= s.totalPages

(* C19: totalPages >= 1 and 1 <= currentPage <= totalPages in every state, *)
(* and ADD_PAGE, DELETE_PAGE(p) and SET_CURRENT_PAGE(p) keep it so for     *)
(* every p, in range or not.                                               *)
C19_PagesInRange ==
  /\ PagesOK(state)
  /\ PagesOK(ADD_PAGE(state, [type |-> "ADD_PAGE"]))
  /\ \A p \in PageArgs :
       /\ PagesOK(DELETE_PAGE(state, [type |-> "DELETE_PAGE", page |-> p]))
       /\ PagesOK(SET_CURRENT_PAGE(state, [type |-> "SET_CURRENT_PAGE", page |-> p]))

(* C19 witness: the last of three pages was current and has been deleted.  *)
C19_Witness ==
  /\ obs.last = "DELETE_PAGE"
  /\ state.totalPages = 2
  /\ state.currentPage = 2

(* The page fields DELETE_PAGE(p) leaves, by the three cases of the rule. *)
AfterDeletePage(s, p) ==
  LET total == s.totalPages - 1
      current == CASE p <= s.currentPage /\ s.currentPage > 1 -> s.currentPage - 1
                   [] ~(p <= s.currentPage /\ s.currentPage > 1) /\ s.currentPage > total -> total
                   [] OTHER -> s.currentPage
  IN [s EXCEPT !.totalPages = total, !.currentPage = current]

AddPages(s, n) ==
  LET add[k \in 0..n] == IF k = 0 THEN s ELSE ADD_PAGE(add[k - 1], [type |-> "ADD_PAGE"])
  IN add[n]

(* C20: ADD_PAGE adds one page and makes the new last page current;        *)
(* DELETE_PAGE(p) with more than one page removes one page and sets        *)
(* currentPage to currentPage - 1 when p <= currentPage and currentPage    *)
(* > 1, otherwise to the new total when currentPage exceeds it, otherwise  *)
(* leaves it; nothing else changes.  From one page, three ADD_PAGE give    *)
(* totalPages 4 and currentPage 4, and DELETE_PAGE(2) then gives 3 and 3.  *)
C20_PageArithmetic ==
  /\ ADD_PAGE(state, [type |-> "ADD_PAGE"])
       = [state EXCEPT !.totalPages = state.totalPages + 1,
                       !.currentPage = state.totalPages + 1]
  /\ state.totalPages > 1 =>
       \A p \in PageArgs :
          DELETE_PAGE(state, [type |-> "DELETE_PAGE", page |-> p]) = AfterDeletePage(state, p)
  /\ LET four == AddPages(initialState, 3)
         three == DELETE_PAGE(four, [type |-> "DELETE_PAGE", page |-> 2])
     IN /\ initialState.totalPages = 1
        /\ four.totalPages = 4 /\ four.currentPage = 4
        /\ three.totalPages = 3 /\ three.currentPage = 3
  /\ obs.last = "ADD_PAGE" => state.currentPage = state.totalPages

(* C20 witness: four pages with page 4 current, a page deleted, three      *)
(* pages with page 3 current.                                             *)
C20_Witness ==
  /\ obs.last = "DELETE_PAGE"
  /\ state.totalPages = 3
  /\ state.currentPage = 3

ZoomOK(s) ==
  /\ s.minZoom <= s.zoom
  /\ s.zoom <= MaxZoom
  /\ MinZoomFloor <= s.minZoom
  /\ s.minZoom <= ZoomUnit

(* Zoom requests and container rects beyond what the controls produce *)
ZoomArgs == {0 - 50, 0, 5, 59, 100, 299, 301, 1000}
RectArgs == Viewports \cup { [width |-> 0, height |-> 0], [width |-> 100, height |-> 100],
                             [width |-> 5000, height |-> 5000] }

(* C21: minZoom <= zoom <= 3 and 0.1 <= minZoom <= 1 in every state that   *)
(* follows an event and its effects, after SET_ZOOM with any requested     *)
(* zoom, and after a minimum-zoom recompute (SET_MIN_ZOOM, then the        *)
(* conditional SET_ZOOM) for any container width.                          *)
C21_ZoomWithinBounds ==
  /\ ZoomOK(state)
  /\ \A zoom \in ZoomArgs : ZoomOK(SET_ZOOM(state, [type |-> "SET_ZOOM", zoom |-> zoom]))
  /\ \A rect \in RectArgs : ZoomOK(Reduce(state, computeAndApplyMinZoom(state, rect)))

(* C21 witness: a wheel zoom at zoom 3 asked for 3.3 and was capped.       *)
C21_Witness ==
  /\ obs.ev = "wheel.zoom"
  /\ obs.last = "SET_ZOOM"
  /\ state.zoom = MaxZoom

(* One axis of a clamped pan: centred when the content fits the view,    *)
(* otherwise between -(content - view) and 0.                            *)
AxisClamped(pan, content, view) ==
  IF content <= view
    THEN 2 * pan <= view - content /\ view - content <= 2 * pan + 1
    ELSE 0 - (content - view) <= pan /\ pan <= 0

(* C22: after every event of the surface (wheel zoom, zoom change, pan   *)
(* gesture, wheel scroll, resize, page added or deleted) and the effects *)
(* that follow it, panOffset is clampPan(panOffset) for the current zoom,*)
(* container and page count: centred on an axis where the content fits,  *)
(* otherwise within [-(content - viewport), 0].                          *)
C22_PanClamped ==
  /\ state.panOffset = clampPan(state, viewport, state.panOffset)
  /\ AxisClamped(state.panOffset.x, getContentSize(state).totalWidth,
                 (viewport.width * ZoomUnit) \div state.zoom)
  /\ AxisClamped(state.panOffset.y, getContentSize(state).totalHeight,
                 (viewport.height * ZoomUnit) \div state.zoom)

(* C22 witness: scrolled to the bottom at zoom 3, a wheel zoom out made   *)
(* the range shorter and the pan sits at the new bottom.                  *)
C22_Witness ==
  /\ obs.ev = "wheel.zoom"
  /\ obs.last = "SET_ZOOM"
  /\ state.zoom < MaxZoom
  /\ state.zoom > ZoomUnit
  /\ state.panOffset.y < 0
  /\ state.panOffset.y
       = (viewport.height * ZoomUnit) \div state.zoom - getContentSize(state).totalHeight

(* Pans handed to clampPan: inside, on and far beyond both ends *)
PanCoords == {0 - 5000, 0 - 300, 0 - 1, 0, 1, 153, 5000}
PanArgs == {Pt(x, y) : x \in PanCoords, y \in PanCoords}

(* C23: for the zoom, container and content of any state,                *)
(* clampPan(clampPan(p)) = clampPan(p) for every p, and on an axis where *)
(* the content fits the view clampPan returns (view - content) / 2       *)
(* whatever p is.                                                        *)
C23_ClampPanIdempotent ==
  \A p \in PanArgs :
     LET q == clampPan(state, viewport, p)
         size == getContentSize(state)
         w == (viewport.width * ZoomUnit) \div state.zoom
         h == (viewport.height * ZoomUnit) \div state.zoom
     IN /\ clampPan(state, viewport, q) = q
        /\ size.totalWidth <= w => q.x = (w - size.totalWidth) \div 2
        /\ size.totalHeight <= h => q.y = (h - size.totalHeight) \div 2

(* C23 witness: a pan move where the content fits the width and not the  *)
(* height: x is the centring value and y has moved.                      *)
C23_Witness ==
  /\ obs.ev = "pan.move"
  /\ obs.last = "SET_PAN"
  /\ getContentSize(state).totalWidth < (viewport.width * ZoomUnit) \div state.zoom
  /\ state.panOffset.x > 0
  /\ state.panOffset.y < 0

(* C24: when an import completes its REPLACE_ELEMENTS, the layerId of    *)
(* every imported element is the id of a layer that exists at that       *)
(* moment, whatever happened to the layers while the file was read.      *)
C24_ImportedLayersExist ==
  obs.last = "REPLACE_ELEMENTS" =>
    \A i \in DOMAIN state.elements : state.elements[i].layerId \in LayerIdsOf(state)

(* C25: choosing a file dispatches nothing; when the read completes, a   *)
(* file that fails to deserialize dispatches nothing and leaves the      *)
(* whole state (elements, selection, history, historyIndex) as it was,   *)
(* and a file that deserializes dispatches one REPLACE_ELEMENTS, which   *)
(* adds one snapshot.                                                    *)
C25_MalformedImportUntouched ==
  [][/\ (obs'.ev = "import.start" => state' = state /\ obs'.last = "")
     /\ (obs'.ev = "import.done" =>
           \E i \in DOMAIN pendingImport :
              /\ pendingImport' = SubSeq(pendingImport, 1, i - 1)
                                    \o SubSeq(pendingImport, i + 1, Len(pendingImport))
              /\ IF deserializeDrawing(fileText(pendingImport[i].file)).ok
                   THEN /\ obs'.last = "REPLACE_ELEMENTS"
                        /\ Len(state'.elements) = Len(deserializeDrawing(fileText(pendingImport[i].file)).value)
                        /\ state'.historyIndex = state.historyIndex + 1
                        /\ Len(state'.history) = state.historyIndex + 2
                   ELSE /\ obs'.last = ""
                        /\ state' = state)]_vars

(* C25 witness: a malformed file was read after a document had been      *)
(* imported; the document is still there.                                *)
C25_Witness ==
  /\ obs.ev = "import.done"
  /\ obs.last = ""
  /\ state.elements # <<>>
  /\ state.historyIndex > 0

(* What C26 says of a file, read off its text: the root is an array and  *)
(* every entry is an object with a string id, a type of the four, an     *)
(* array points of objects with numeric x and y, a style object with a   *)
(* string strokeColor and a numeric strokeWidth, and a string layerId.   *)
HasA(text, key, kind) ==
  /\ text.j = "object"
  /\ key \in DOMAIN text.props
  /\ text.props[key].j = kind

ValidEntry(text) ==
  /\ HasA(text, "id", "string")
  /\ HasA(text, "type", "string") /\ text.props["type"].s \in {"line", "angle", "freehand", "text"}
  /\ HasA(text, "points", "array")
  /\ \A i \in DOMAIN text.props["points"].items :
        /\ HasA(text.props["points"].items[i], "x", "number")
        /\ HasA(text.props["points"].items[i], "y", "number")
  /\ HasA(text, "style", "object")
  /\ HasA(text.props["style"], "strokeColor", "string")
  /\ HasA(text.props["style"], "strokeWidth", "number")
  /\ HasA(text, "layerId", "string")

ValidDocument(text) ==
  /\ text.j = "array"
  /\ \A i \in DOMAIN text.items : ValidEntry(text.items[i])

(* C26: deserializeDrawing fails exactly when the file's root is not an  *)
(* array or some entry is not a valid element; otherwise it returns the  *)
(* parsed entries unchanged and in order.  When a file's text resolves,  *)
(* an invalid file dispatches nothing and a valid file replaces the      *)
(* elements by its entries, in order.                                    *)
C26_DeserializeExact ==
  [][\A i \in DOMAIN pendingImport :
       (/\ obs'.ev = "import.done"
        /\ pendingImport' = SubSeq(pendingImport, 1, i - 1)
                               \o SubSeq(pendingImport, i + 1, Len(pendingImport))) =>
         LET c == pendingImport[i]
             text == fileText(c.file)
             result == deserializeDrawing(text)
         IN IF ValidDocument(text)
              THEN /\ result = [ok |-> TRUE, value |-> JSONparse(text).items]
                   /\ obs'.last = "REPLACE_ELEMENTS"
                   /\ state'.elements =
                        Normalize(ElementsOf(JSONparse(text).items), c.validLayerIds, c.fallback)
              ELSE /\ ~result.ok
                   /\ obs'.last = ""
                   /\ state' = state]_vars

(* A file of two valid entries was imported, the line before the text. *)
C26_Witness ==
  /\ obs.ev = "import.done"
  /\ obs.last = "REPLACE_ELEMENTS"
  /\ Len(state.elements) = 2
  /\ state.elements[1].type = "line"
  /\ state.elements[2].type = "text"

(* C27: the text written for the drawing deserializes to the drawing:    *)
(* deserializeDrawing(serializeDrawing(elements)) returns elements.      *)
C27_RoundTrip ==
  deserializeDrawing(handleSaveJson) = [ok |-> TRUE, value |-> DrawingElements(state.elements)]

(* C28: an undo at historyIndex 0 and a redo at the last snapshot leave  *)
(* the whole state as it was: elements, selection, history, historyIndex *)
(* and every other field.                                                *)
C28_OutOfRangeNoOp ==
  [][(\/ obs'.ev = "undo" /\ state.historyIndex = 0
      \/ obs'.ev = "redo" /\ state.historyIndex = Len(state.history) - 1)
       => /\ state' = state
          /\ UNDO(state, [type |-> "UNDO"]) = state \/ state.historyIndex # 0
          /\ REDO(state, [type |-> "REDO"]) = state
               \/ state.historyIndex # Len(state.history) - 1]_vars

(* A redo was asked at the end of a history of several snapshots, with  *)
(* an element selected.                                                  *)
C28_Witness ==
  /\ obs.ev = "redo"
  /\ obs.last = "REDO-"
  /\ Len(state.history) > 1
  /\ state.historyIndex = Len(state.history) - 1
  /\ state.selectedElementIds # <<>>

(* C29: SET_TOOL, UPDATE_ELEMENT, SELECT_ELEMENTS, ADD_LAYER,             *)
(* UPDATE_LAYER, DELETE_LAYER, SET_CURRENT_LAYER, SET_ZOOM, SET_MIN_ZOOM, *)
(* SET_PAN, ADD_PAGE, DELETE_PAGE, SET_CURRENT_PAGE and                   *)
(* UPDATE_TOOL_SETTINGS, reduced from any reachable state with any        *)
(* payload, return a state with the same history and historyIndex.        *)
C29_HistoryFrame ==
  LET Kept(a) == LET t == drawingReducer(state, a)
                 IN t.history = state.history /\ t.historyIndex = state.historyIndex
      ids == {state.elements[i].id : i \in DOMAIN state.elements} \cup {<<"el", 0, 0>>}
      layerIds == LayerIdsOf(state) \cup {UnknownLayerId}
  IN /\ \A tool \in {"select", "line", "angle", "freehand", "text", "eraser"} :
          Kept([type |-> "SET_TOOL", tool |-> tool])
     /\ \A id \in ids :
          /\ Kept([type |-> "UPDATE_ELEMENT", id |-> id, points |-> <<PB, PA>>])
          /\ Kept([type |-> "SELECT_ELEMENTS", ids |-> <<id>>])
     /\ Kept([type |-> "SELECT_ELEMENTS", ids |-> <<>>])
     /\ Kept([type |-> "ADD_LAYER",
               layer |-> [id |-> UnknownLayerId, visible |-> TRUE, locked |-> FALSE]])
     /\ \A id \in layerIds :
          /\ \A field \in {"visible", "locked"} : \A value \in BOOLEAN :
                Kept([type |-> "UPDATE_LAYER", id |-> id, field |-> field, value |-> value])
          /\ Kept([type |-> "DELETE_LAYER", id |-> id])
          /\ Kept([type |-> "SET_CURRENT_LAYER", id |-> id])
     /\ \A zoom \in ZoomArgs :
          /\ Kept([type |-> "SET_ZOOM", zoom |-> zoom])
          /\ Kept([type |-> "SET_MIN_ZOOM", minZoom |-> zoom])
     /\ \A offset \in {Pt(0, 0), Pt(0 - 300, 40)} : Kept([type |-> "SET_PAN", offset |-> offset])
     /\ Kept([type |-> "ADD_PAGE"])
     /\ \A page \in PageArgs :
          /\ Kept([type |-> "DELETE_PAGE", page |-> page])
          /\ Kept([type |-> "SET_CURRENT_PAGE", page |-> page])
     /\ Kept([type |-> "UPDATE_TOOL_SETTINGS", tool |-> "eraser", settings |-> [strokeWidth |-> 20]])
     /\ Kept([type |-> "UPDATE_TOOL_SETTINGS", tool |-> "text", settings |-> [fontSize |-> 24]])
     /\ Kept([type |-> "UPDATE_TOOL_SETTINGS", tool |-> "line", settings |-> [strokeColor |-> "#ff0000"]])

(* An element is being dragged (UPDATE_ELEMENT) after an undo: the       *)
(* history has a snapshot beyond historyIndex.                           *)
C29_Witness ==
  /\ obs.last = "UPDATE_ELEMENT"
  /\ state.historyIndex < Len(state.history) - 1
  /\ state.elements # <<>>

(* C30: every id in selectedElementIds is the id of an element of the   *)
(* element list.                                                         *)
C30_SelectionExists ==
  \A k \in DOMAIN state.selectedElementIds :
     \E i \in DOMAIN state.elements : state.elements[i].id = state.selectedElementIds[k]

(* C31: a text entry ended by Escape, or by Enter on empty or            *)
(* whitespace-only text, adds no element: the focus-loss commit that     *)
(* fires after it dispatches no ADD_ELEMENT.                             *)
C31_DiscardedAddsNothing ==
  [][(/\ obs.ev = "text.escape" \/ (obs.ev = "text.submit" /\ obs.last = "")
      /\ obs'.ev = "text.timeout")
       => obs'.last # "ADD_ELEMENT"]_vars

(* C32: a commit of a text entry adds exactly one element, a text whose  *)
(* only point is the clicked document point, with the typed text, the    *)
(* text tool's font size and the current layer.                          *)
C32_TextAtClickedPoint ==
  [][obs'.ev \in {"text.submit", "text.timeout"} /\ obs'.last = "ADD_ELEMENT"
       => /\ Len(state'.elements) = Len(state.elements) + 1
          /\ LET el == state'.elements[Len(state'.elements)]
             IN /\ el.type = "text"
                /\ el.points = <<PA>>
                /\ el.text = "hi"
                /\ el.fontSize = state.textFontSize
                /\ el.layerId = state.currentLayerId]_vars

(* C33: a pointer-down of the select tool selects the one element that  *)
(* is last in the list among those on a visible, unlocked layer whose    *)
(* geometry is within 7 px of the point, and starts dragging; when there *)
(* is none, it empties the selection and starts no drag.                 *)
HitsAt(point) ==
  {i \in DOMAIN state.elements :
     /\ LayerEditable(state, state.elements[i].layerId)
     /\ GeometryHit(state.elements[i], point, 14, 0)}

C34_DragTranslates ==
  [][obs'.ev = "select.move" =>
       /\ Len(state'.elements) = Len(state.elements)
       /\ \A i \in DOMAIN state.elements :
             state'.elements[i] =
               IF Includes(state.selectedElementIds, state.elements[i].id)
                 THEN [state.elements[i] EXCEPT
                         !.points = Translate(@, dragStart'[1].x - dragStart[1].x,
                                                 dragStart'[1].y - dragStart[1].y)]
                 ELSE state.elements[i]]_vars

(* C35: a line gesture with at least one move ends in one ADD_ELEMENT   *)
(* of the line from the point of the pointer-down to the point of the    *)
(* last move, with the distance between the two as measurements.length,  *)
(* and leaves the tool idle; an UNDO that follows restores the element   *)
(* list and the historyIndex from before the ADD_ELEMENT, and a REDO     *)
(* after it brings back the same line.                                   *)
C35_LineGestureUndoRedo ==
  [][/\ \A point \in LinePoints :
          LineMouseMove(point) =>
            /\ currentElement'[1].points = <<currentElement[1].points[1], point>>
            /\ currentElement'[1].measurements.length =
                  Hypot(point.x - currentElement[1].points[1].x,
                        point.y - currentElement[1].points[1].y)
     /\ (obs'.ev = "line.up" /\ "measurements" \in DOMAIN currentElement[1]) =>
            /\ state'.elements = Append(state.elements, currentElement[1])
            /\ state'.historyIndex = state.historyIndex + 1
            /\ currentElement' = <<>> /\ ~isDrawing'
     /\ (/\ obs'.g.kind = "line" /\ obs'.g.phase = "undone"
         /\ "measurements" \in DOMAIN obs'.g.added) =>
            /\ state'.elements = obs'.g.before
            /\ state'.historyIndex = obs'.g.idx
     /\ (/\ obs'.g.kind = "line" /\ obs'.g.phase = "redone"
         /\ "measurements" \in DOMAIN obs'.g.added) =>
            /\ state'.elements = Append(obs'.g.before, obs'.g.added)
            /\ state'.historyIndex = obs'.g.idx + 1]_vars

(* C36: in every freehand element of the element list, each point after *)
(* the first is more than 2 px away from the point before it.            *)
C36_FreehandSpacing ==
  \A i \in DOMAIN state.elements :
     state.elements[i].type = "freehand" =>
       \A k \in 2..Len(state.elements[i].points) :
          LET p == state.elements[i].points[k]
              q == state.elements[i].points[k - 1]
          IN (p.x - q.x) * (p.x - q.x) + (p.y - q.y) * (p.y - q.y) > 2 * 2

(* C37: the first point of every element of the element list lies in    *)
(* the rectangle of one of the pages 1..totalPages.                      *)
C37_ElementsOnPages ==
  \A i \in DOMAIN state.elements :
     /\ Len(state.elements[i].points) >= 1
     /\ \E page \in 1..state.totalPages :
           InBounds(state.elements[i].points[1], getPageBounds(state, page))

(* C38: an undo and a redo change elements, historyIndex and the        *)
(* selection only: layers, currentLayerId, currentTool, the tool         *)
(* settings, zoom, minZoom, panOffset, currentPage, totalPages and the   *)
(* history sequence are the same after it.                               *)
C38_UndoRedoFrame ==
  [][obs'.ev \in {"undo", "redo"} =>
       \A field \in DOMAIN state \ {"elements", "historyIndex", "selectedElementIds"} :
          state'[field] = state[field]]_vars

(* An undo took a line away while the line tool was active, a layer was  *)
(* deleted, a second page existed and zoom and pan were off their        *)
(* initial values.                                                       *)
C38_Witness ==
  /\ obs.ev = "undo" /\ obs.last = "UNDO"
  /\ state.elements # state.history[state.historyIndex + 2]
  /\ state.currentTool = "line"
  /\ Len(state.layers) < Len(initialLayers)
  /\ state.totalPages > 1
  /\ state.zoom # ZoomUnit
  /\ state.panOffset.y # 0

(* C39: no two elements of the element list have the same id.           *)
C39_UniqueIds ==
  \A i, k \in DOMAIN state.elements :
     state.elements[i].id = state.elements[k].id => i = k

(* C40: a Delete or Backspace pressed while the focus is in a text      *)
(* input leaves the element list as it is, as the undo and redo          *)
(* shortcuts do.                                                         *)
C40_KeysInTextInput ==
  [][obs'.ev \in {"select.key.input", "shortcut.input"} =>
       state'.elements = state.elements]_vars

====
